---- MODULE Spec2Model ----
(***************************************************************************)
(* Model of the fiaisis/jobcontroller job watcher and job creator.         *)
(*                                                                         *)
(* Strings whose content the code inspects (resource names, the `pvs` and  *)
(* `pvcs` annotation values) are sequences of one-character strings, so    *)
(* that str(list), str.strip and str.split are computed as Python computes *)
(* them.  Every call to the cluster API or the HTTP API is appended to a   *)
(* history, so that the order of the calls is part of the state.           *)
(***************************************************************************)
EXTENDS Integers, Sequences, FiniteSets, TLC

VARIABLES
  \* ---- job watcher (job_watcher.py, one JobWatcher instance) ----
  w_pc,                 \* position of the watcher inside watch()
  done_watching,        \* JobWatcher.done_watching
  max_time_to_complete, \* JobWatcher.max_time_to_complete (seconds)
  job,                  \* JobWatcher.job: the annotations `pvs` and `pvcs`
  pod_age,              \* now - pod.metadata.creation_timestamp, at the last refresh
  container,            \* the main container's status in the pod, at the last refresh
  log_tail,             \* the 1-line log tail the last tick's stall check got, if it read it
  outcome,              \* branch taken by check_for_changes: none/success/failure/stall
  report,               \* arguments of the running _update_job_status call
  retry_attempts,       \* _update_job_status: retry_attempts
  todo,                 \* cleanup loop: entries of the split annotation still to visit
  w_error,              \* the exception that left watch(), "" if none
  calls,                \* history of the watcher's HTTP, sleep and delete calls
  \* ---- job creator (jobcreator/queue_consumer.py, main.py, job_creator.py,
  \*      script_acquisition.py) ----
  c_pc,                 \* position of the creator in the consume loop and the handlers
  dev_mode,             \* JobCreator.dev_mode
  delivered,            \* the messages the broker delivered: kind of body, number of acks
  msg,                  \* process_message: message, the decoded mapping
  hex,                  \* uuid.uuid4().hex drawn for the message
  job_type,             \* the path process_message chose
  job_name,             \* spawn_job: job_name
  special_pvs,          \* spawn_job: special_pvs
  plan,                 \* spawn_job: the PV and PVC creations still to run
  pv_names,             \* spawn_job: pv_names
  pvc_names,            \* spawn_job: pvc_names
  retry_attempt,        \* post_autoreduction_job: retry_attempt
  responses,            \* post_autoreduction_job: the responses received so far
  acquired,             \* the (script, job_id) post_autoreduction_job returned
  submitted,            \* the V1Job handed to create_namespaced_job, NoJob before
  c_error,              \* the exception raised while handling the message, "" if none
  c_calls,              \* the creator's HTTP, sleep, mkdir and cluster calls for the message
  \* ---- image digest lookup (jobcreator/utils.py, one find_sha256_of_image call) ----
  i_pc,                 \* position of the call: call, returned or raised
  image,                \* find_sha256_of_image: image, the reference passed in
  registry,             \* what ghcr.io does with the token and the manifest request
  resolved,             \* the outcome of the call: the value returned, the requests made
  \* ---- the watcher's reading of the main container's log (job_watcher.py,
  \*      process_job_success and process_job_failed) ----
  l_pc,                 \* position: terminated, then reported or raised
  log,                  \* the log of the main container, as the cluster returns it
  log_read,             \* whether read_namespaced_pod_log returns or raises
  l_out,                \* the output line chosen and the report handed to _update_job_status
  \* ---- the watcher sidecar of one job: its environment and its pod (job_creator.py
  \*      spawn_job, jobwatcher/main.py, job_watcher.py) ----
  s_pc,                 \* position: creator, spawned, imported, watching, or the exception
  environ,              \* os.environ of the job creator
  spawn_args,           \* the arguments of the spawn_job call
  sidecar_env,          \* env of the job-watcher container of the submitted job
  settings,             \* the module constants of the watcher, read from its os.environ
  pods,                 \* the names of the pods of the namespace, in list order
  pod_name,             \* JobWatcher.pod_name
  pod_read,             \* JobWatcher.pod: the name of the pod and the call that read it
  \* ---- two jobs side by side, each with its creator call and its watcher
  \*      (job_creator.py spawn_job, job_watcher.py clean_up_*_for_job) ----
  p_pc,                 \* per job: spawn, running, pvs, pvcs, done, abandoned or raised
  p_jobs,               \* per job: spawn_job's job_name, plan, pv_names, pvc_names, annotations
  p_todo,               \* per job: the entries its watcher's cleanup loop still has to visit
  p_calls               \* per job: the cluster calls of its creator and its watcher

wvars == <<w_pc, done_watching, max_time_to_complete, job, pod_age, container, log_tail,
           outcome, report, retry_attempts, todo, w_error, calls>>

cvars == <<c_pc, dev_mode, delivered, msg, hex, job_type, job_name, special_pvs, plan,
           pv_names, pvc_names, retry_attempt, responses, acquired, submitted, c_error,
           c_calls>>

ivars == <<i_pc, image, registry, resolved>>

lvars == <<l_pc, log, log_read, l_out>>

svars == <<s_pc, environ, spawn_args, sidecar_env, settings, pods, pod_name, pod_read>>

pvars == <<p_pc, p_jobs, p_todo, p_calls>>

vars == <<wvars, cvars, ivars, lvars, svars, pvars>>

\* what each part of the program leaves alone
not_wvars == <<cvars, ivars, lvars, svars, pvars>>

not_cvars == <<wvars, ivars, lvars, svars, pvars>>

not_ivars == <<wvars, cvars, lvars, svars, pvars>>

not_lvars == <<wvars, cvars, ivars, svars, pvars>>

not_svars == <<wvars, cvars, ivars, lvars, pvars>>

not_pvars == <<wvars, cvars, ivars, lvars, svars>>

-----------------------------------------------------------------------------
(* Bounds of the model.                                                    *)

\* longest list of names written into one annotation of the watched job
MaxAnn == 2

\* longest image reference written with the characters a, / and :
MaxRef == 7

\* most lines in the log of the main container
MaxLog == 3

\* number of messages the broker delivers to the consumer
MaxMessages == 2

-----------------------------------------------------------------------------
(* Python string operations, on sequences of characters.                   *)

Range(s) == {s[i] : i \in 1..Len(s)}

\* Python's None inside a list of names
NoneVal == <<"<None>">>

RECURSIVE LStrip(_, _)
LStrip(s, chars) ==
  IF s = <<>> \/ Head(s) \notin chars THEN s ELSE LStrip(Tail(s), chars)

RECURSIVE RStrip(_, _)
RStrip(s, chars) ==
  IF s = <<>> \/ s[Len(s)] \notin chars THEN s
  ELSE RStrip(SubSeq(s, 1, Len(s) - 1), chars)

\* str.strip(chars): drop leading and trailing characters that are in chars
PyStrip(s, chars) == RStrip(LStrip(s, chars), chars)

\* first index at which sep occurs in s, 0 if none
FindSep(s, sep) ==
  LET hits == {i \in 1..(Len(s) - Len(sep) + 1) : SubSeq(s, i, i + Len(sep) - 1) = sep}
  IN IF hits = {} THEN 0 ELSE CHOOSE i \in hits : \A j \in hits : i <= j

RECURSIVE PySplit(_, _)
\* str.split(sep): "".split(", ") is [""]
PySplit(s, sep) ==
  LET i == FindSep(s, sep)
  IN IF i = 0 THEN <<s>>
     ELSE <<SubSeq(s, 1, i - 1)>> \o PySplit(SubSeq(s, i + Len(sep), Len(s)), sep)

\* repr() of a list element: None, or the string in quotes
PyRepr(x) ==
  IF x = NoneVal THEN <<"N", "o", "n", "e">>
  ELSE IF "'" \in Range(x) /\ "\"" \notin Range(x) THEN <<"\"">> \o x \o <<"\"">>
  ELSE <<"'">> \o x \o <<"'">>

RECURSIVE PyJoin(_)
PyJoin(l) ==
  IF l = <<>> THEN <<>>
  ELSE IF Len(l) = 1 THEN PyRepr(l[1])
  ELSE PyRepr(l[1]) \o <<",", " ">> \o PyJoin(Tail(l))

\* str(list)
PyStrList(l) == <<"[">> \o PyJoin(l) \o <<"]">>

-----------------------------------------------------------------------------
(* Job watcher: job_watcher.py                                             *)

HTTP_OK == 200
HTTP_INTERNAL_SERVER_ERROR == 500
\* a requests call that raised instead of returning a response
NoResponse == 0

seconds_in_30_minutes == 60 * 30

max_attempts == 3

\* values of MAX_TIME_TO_COMPLETE_JOB: below the 30 minute log window, and the default
MaxTimes == {600, 60 * 60 * 6}

\* pod ages (seconds) a refresh can observe, around both thresholds
Ages(max) == {seconds_in_30_minutes, seconds_in_30_minutes + 1, max, max + 1}

\* names a job's annotations may list
WatchedNames == {<<"a">>, <<"b", "1">>}

RECURSIVE SeqsUpTo(_, _)
SeqsUpTo(S, n) ==
  IF n = 0 THEN {<<>>}
  ELSE LET shorter == SeqsUpTo(S, n - 1)
       IN shorter \cup {Append(l, x) : l \in {m \in shorter : Len(m) = n - 1}, x \in S}

\* the lists whose str() a job may carry in `pvs` or `pvcs`: names (each at most
\* once, as the cluster keeps them unique) and None
AnnotationLists ==
  {l \in SeqsUpTo(WatchedNames \cup {NoneVal}, MaxAnn) :
     \A i, k \in 1..Len(l) : (i # k /\ l[i] = l[k]) => l[i] = NoneVal}

Call(op, name, n, state) == [op |-> op, name |-> name, n |-> n, state |-> state]

NoReport == [state |-> "", status_message |-> "", output_files |-> <<>>]

\* the script's last log line, as process_job_success sees it
Payloads ==
  {[kind |-> "object", status |-> s] :
      s \in {"Successful", "partial", "<absent>"}}
  \cup {[kind |-> k, status |-> ""] : k \in {"not_json", "read_error"}}

\* str.upper() on the status values of Payloads
Upper(s) ==
  CASE s = "Successful" -> "SUCCESSFUL"
    [] s = "partial" -> "PARTIAL"
    [] OTHER -> s

\* process_job_success: the report built from the parsed (or unparsable) last line
SuccessReport(p) ==
  IF p.kind = "object"
  THEN [state |-> Upper(IF p.status = "<absent>" THEN "UNSUCCESSFUL" ELSE p.status),
        status_message |-> "from_payload", output_files |-> <<"from_payload">>]
  ELSE [state |-> "UNSUCCESSFUL", status_message |-> "exception_text", output_files |-> <<>>]

\* process_job_failed
FailedReport ==
  [state |-> "ERROR", status_message |-> "raised_error", output_files |-> <<>>]

\* a stall check whose log-silence test starts at 30 minutes sharp
check_for_pod_stalled_from_30_minutes(age, logs_empty, max) ==
  IF age >= seconds_in_30_minutes /\ logs_empty THEN TRUE
  ELSE IF age > max THEN TRUE
  ELSE FALSE

\* a stall check without the max_time_to_complete criterion
check_for_pod_stalled_on_silence_only(age, logs_empty, max) ==
  IF age > seconds_in_30_minutes /\ logs_empty THEN TRUE
  ELSE FALSE

\* check_for_pod_stalled, given the pod's age and whether the 1-line tail is empty
check_for_pod_stalled(age, logs_empty, max) ==
  IF age > seconds_in_30_minutes /\ logs_empty THEN TRUE
  ELSE IF age > max THEN TRUE
  ELSE FALSE

\* clean_up_pvs_for_job: the list the loop walks
pvs_to_delete(j) == PySplit(PyStrip(j.pvs, {"]", "["}), <<",", " ">>)

\* clean_up_pvcs_for_job: the list the loop walks
pvcs_to_delete(j) == PySplit(PyStrip(j.pvcs, {"]", "["}), <<",", " ">>)

NoneStr == <<"N", "o", "n", "e">>

\* clean_up_pvs_for_job: the name tested and deleted for one list entry
pv_name(pv) == PyStrip(PyStrip(pv, {"'"}), {"\""})

\* clean_up_pvs_for_job: whether the entry is deleted
pv_is_deleted(pv) == pv_name(pv) # NoneStr

\* clean_up_pvcs_for_job: the name tested for one list entry
pvc_name(pvc) == PyStrip(pvc, {"'"})

\* clean_up_pvcs_for_job: whether the entry is deleted
pvc_is_deleted(pvc) == pvc_name(pvc) # NoneStr

\* clean_up_pvcs_for_job: the name passed to the delete call
pvc_deleted_name(pvc) == PyStrip(PyStrip(pvc, {"'"}), {"\""})

\* a check_for_changes that cleans up without waiting for check_for_job_complete's report
StepOnTerminated_cleanup_first == "cleanup"

\* check_for_changes: what follows a terminated container (line 182: the report)
StepOnTerminated == "patch"

\* check_for_changes: what follows the report (line 183)
StepAfterReport == "cleanup"

\* an _update_job_status that exits the process when the retries are used up
StepOnExhaustion_exits == "raised"

\* _update_job_status: the loop ends without a 200; logger.error, then return
StepOnExhaustion == StepAfterReport

\* an _update_job_status whose loop runs while retry_attempts < max_attempts
MayRetry_strict(n) == n < max_attempts

\* _update_job_status: the loop condition, retry_attempts <= max_attempts
MayRetry(n) == n <= max_attempts

\* the statuses of the main container a refresh can find in the pod: not terminated,
\* terminated with exit code 0, terminated with another exit code
ContainerStates ==
  {[terminated |-> FALSE, exit_code |-> 0],
   [terminated |-> TRUE, exit_code |-> 0],
   [terminated |-> TRUE, exit_code |-> 137]}

NotTerminated == [terminated |-> FALSE, exit_code |-> 0]

\* a check_for_job_complete that does not look at the exit code
TickBranch_exit_code_ignored(c) ==
  IF c.terminated THEN "success" ELSE "stall_check"

\* check_for_changes and check_for_job_complete, lines 182-222: the branch a tick takes
TickBranch(c) ==
  IF c.terminated
  THEN IF c.exit_code = 0 THEN "success" ELSE "failure"
  ELSE "stall_check"

\* check_for_pod_stalled, lines 237-248: the log tail is read only for a pod older than
\* 30 minutes
read_log_tail(age, logs_empty) ==
  IF age > seconds_in_30_minutes
  THEN IF logs_empty THEN "empty" ELSE "lines"
  ELSE "unread"

\* a check_for_changes that leaves done_watching as it is
DoneAfterCleanup_forgotten == FALSE

\* check_for_changes, lines 184 and 188: done_watching = True
DoneAfterCleanup == TRUE

WInit ==
  /\ w_pc = "watch"
  /\ done_watching = FALSE
  /\ max_time_to_complete \in MaxTimes
  /\ job \in [pvs : {PyStrList(l) : l \in AnnotationLists},
              pvcs : {PyStrList(l) : l \in AnnotationLists}]
  /\ pod_age = 0
  /\ container = NotTerminated
  /\ log_tail = "unread"
  /\ outcome = "none"
  /\ report = NoReport
  /\ retry_attempts = 0
  /\ todo = <<>>
  /\ w_error = ""
  /\ calls = <<>>

\* watch(): the loop is entered only while done_watching is false
Ticking == w_pc = "watch" /\ ~done_watching

\* the refresh of a tick: the pod's age has not gone down since the last one
Refresh(c, age) ==
  /\ c \in ContainerStates
  /\ age \in Ages(max_time_to_complete)
  /\ age >= pod_age
  /\ container' = c
  /\ pod_age' = age

\* check_for_changes: a cluster read raises, or the main container's status is absent
TickRaises ==
  /\ Ticking
  /\ \E e \in {"read_job", "read_pod", "container_not_found"} : w_error' = e
  /\ w_pc' = "raised"
  /\ log_tail' = "unread"
  /\ UNCHANGED <<done_watching, max_time_to_complete, job, pod_age, container, outcome,
                 report, retry_attempts, todo, calls>>

\* check_for_job_complete: terminated with exit code 0, process_job_success
TickSuccess ==
  /\ Ticking
  /\ \E c \in ContainerStates, age \in Ages(max_time_to_complete) :
       /\ TickBranch(c) = "success"
       /\ Refresh(c, age)
  /\ \E p \in Payloads : report' = SuccessReport(p)
  /\ outcome' = "success"
  /\ log_tail' = "unread"
  /\ retry_attempts' = 0
  /\ w_pc' = StepOnTerminated
  /\ UNCHANGED <<done_watching, max_time_to_complete, job, todo, w_error, calls>>

\* check_for_job_complete: terminated with another exit code, process_job_failed
TickFailure ==
  /\ Ticking
  /\ \E c \in ContainerStates, age \in Ages(max_time_to_complete) :
       /\ TickBranch(c) = "failure"
       /\ Refresh(c, age)
  /\ report' = FailedReport
  /\ outcome' = "failure"
  /\ log_tail' = "unread"
  /\ retry_attempts' = 0
  /\ w_pc' = StepOnTerminated
  /\ UNCHANGED <<done_watching, max_time_to_complete, job, todo, w_error, calls>>

\* what may raise inside process_job_success (a payload that is no JSON object, the pod
\* read of _find_start_and_end_of_pod) and inside process_job_failed (the log read, the
\* job-id annotation lookup, the pod read), before _update_job_status is called
ProcessErrors(o) ==
  IF o = "success" THEN {"payload_not_object", "read_pod"}
  ELSE {"read_log", "job_id_missing", "read_pod"}

\* process_job_success / process_job_failed raises before the report
TickProcessRaises ==
  /\ Ticking
  /\ \E c \in ContainerStates, age \in Ages(max_time_to_complete) :
       /\ TickBranch(c) \in {"success", "failure"}
       /\ Refresh(c, age)
       /\ outcome' = TickBranch(c)
       /\ \E e \in ProcessErrors(TickBranch(c)) : w_error' = e
  /\ w_pc' = "raised"
  /\ log_tail' = "unread"
  /\ UNCHANGED <<done_watching, max_time_to_complete, job, report, retry_attempts, todo,
                 calls>>

\* check_for_changes: not terminated, check_for_pod_stalled is true
TickStalled ==
  /\ Ticking
  /\ \E c \in ContainerStates, age \in Ages(max_time_to_complete), logs_empty \in BOOLEAN :
       /\ TickBranch(c) = "stall_check"
       /\ Refresh(c, age)
       /\ check_for_pod_stalled(age, logs_empty, max_time_to_complete)
       /\ log_tail' = read_log_tail(age, logs_empty)
  /\ outcome' = "stall"
  /\ w_pc' = "cleanup"
  /\ UNCHANGED <<done_watching, max_time_to_complete, job, report, retry_attempts,
                 todo, w_error, calls>>

\* check_for_changes: not terminated, not stalled; watch() sleeps 0.5 s and loops
TickStillBusy ==
  /\ Ticking
  /\ \E c \in ContainerStates, age \in Ages(max_time_to_complete), logs_empty \in BOOLEAN :
       /\ TickBranch(c) = "stall_check"
       /\ Refresh(c, age)
       /\ ~check_for_pod_stalled(age, logs_empty, max_time_to_complete)
       /\ log_tail' = read_log_tail(age, logs_empty)
  /\ UNCHANGED <<w_pc, done_watching, max_time_to_complete, job, outcome, report,
                 retry_attempts, todo, w_error, calls>>

\* check_for_pod_stalled: the log read of the stall check raises
TickStallCheckRaises ==
  /\ Ticking
  /\ \E c \in ContainerStates, age \in Ages(max_time_to_complete) :
       /\ TickBranch(c) = "stall_check"
       /\ Refresh(c, age)
       /\ age > seconds_in_30_minutes
  /\ log_tail' = "raised"
  /\ w_error' = "read_log"
  /\ w_pc' = "raised"
  /\ UNCHANGED <<done_watching, max_time_to_complete, job, outcome, report,
                 retry_attempts, todo, calls>>

\* the PATCH responses the HTTP API may give
Responses == {HTTP_OK, HTTP_INTERNAL_SERVER_ERROR}

\* _update_job_status: one pass of the while loop (PATCH, and on a non-200 the sleep)
UpdateJobStatusAttempt ==
  /\ w_pc = "patch"
  /\ \E code \in Responses :
       LET sent == Append(calls, Call("PATCH", <<>>, code, report.state))
       IN IF code = HTTP_OK
          THEN /\ calls' = sent
               /\ retry_attempts' = retry_attempts
               /\ w_pc' = StepAfterReport
          ELSE /\ retry_attempts' = retry_attempts + 1
               /\ calls' = Append(sent, Call("sleep", <<>>, 3 + retry_attempts', ""))
               /\ w_pc' = IF MayRetry(retry_attempts') THEN "patch"
                          ELSE StepOnExhaustion
  /\ UNCHANGED <<done_watching, max_time_to_complete, job, pod_age, container, log_tail,
                 outcome, report,
                 todo, w_error>>

\* _update_job_status: requests.patch raises (timeout=30, connection error)
UpdateJobStatusRaises ==
  /\ w_pc = "patch"
  /\ calls' = Append(calls, Call("PATCH", <<>>, NoResponse, report.state))
  /\ w_error' = "patch"
  /\ w_pc' = "raised"
  /\ UNCHANGED <<done_watching, max_time_to_complete, job, pod_age, container, log_tail,
                 outcome, report,
                 retry_attempts, todo>>

\* cleanup_job: the first of its two loops
FirstCleanup == "pvs"

\* the entries a cleanup loop walks
ToDelete(kind, j) == IF kind = "pvs" THEN pvs_to_delete(j) ELSE pvcs_to_delete(j)

OtherKind(kind) == IF kind = "pvs" THEN "pvcs" ELSE "pvs"

\* cleanup_job: enter the first loop
CleanupStart ==
  /\ w_pc = "cleanup"
  /\ todo' = ToDelete(FirstCleanup, job)
  /\ calls' = Append(calls, Call("cleanup", <<>>, 0, ""))
  /\ w_pc' = FirstCleanup
  /\ UNCHANGED <<done_watching, max_time_to_complete, job, pod_age, container, log_tail,
                 outcome, report, retry_attempts, w_error>>

\* clean_up_pvs_for_job: one pass of the for loop
DeletePv ==
  /\ w_pc = "pvs"
  /\ todo # <<>>
  /\ LET pv == Head(todo)
     IN IF pv_is_deleted(pv)
        THEN \E ok \in BOOLEAN :
               /\ calls' = Append(calls, Call("delete_pv", pv_name(pv), IF ok THEN 1 ELSE 0, ""))
               /\ IF ok THEN /\ todo' = Tail(todo)
                             /\ UNCHANGED <<w_pc, w_error>>
                  ELSE /\ w_pc' = "raised"
                       /\ w_error' = "delete_pv"
                       /\ UNCHANGED todo
        ELSE /\ todo' = Tail(todo)
             /\ UNCHANGED <<w_pc, w_error, calls>>
  /\ UNCHANGED <<done_watching, max_time_to_complete, job, pod_age, container, log_tail,
                 outcome, report,
                 retry_attempts>>

\* clean_up_pvcs_for_job: one pass of the for loop
DeletePvc ==
  /\ w_pc = "pvcs"
  /\ todo # <<>>
  /\ LET pvc == Head(todo)
     IN IF pvc_is_deleted(pvc)
        THEN \E ok \in BOOLEAN :
               /\ calls' = Append(calls, Call("delete_pvc", pvc_deleted_name(pvc),
                                              IF ok THEN 1 ELSE 0, ""))
               /\ IF ok THEN /\ todo' = Tail(todo)
                             /\ UNCHANGED <<w_pc, w_error>>
                  ELSE /\ w_pc' = "raised"
                       /\ w_error' = "delete_pvc"
                       /\ UNCHANGED todo
        ELSE /\ todo' = Tail(todo)
             /\ UNCHANGED <<w_pc, w_error, calls>>
  /\ UNCHANGED <<done_watching, max_time_to_complete, job, pod_age, container, log_tail,
                 outcome, report,
                 retry_attempts>>

\* cleanup_job: the first loop is over, enter the second
CleanupNext ==
  /\ w_pc = FirstCleanup
  /\ todo = <<>>
  /\ todo' = ToDelete(OtherKind(FirstCleanup), job)
  /\ w_pc' = OtherKind(FirstCleanup)
  /\ UNCHANGED <<done_watching, max_time_to_complete, job, pod_age, container, log_tail,
                 outcome, report,
                 retry_attempts, w_error, calls>>

\* check_for_changes: cleanup_job has returned, done_watching = True
CleanupDone ==
  /\ w_pc = OtherKind(FirstCleanup)
  /\ todo = <<>>
  /\ done_watching' = DoneAfterCleanup
  /\ w_pc' = "watch"
  /\ UNCHANGED <<max_time_to_complete, job, pod_age, container, log_tail, outcome, report,
                 retry_attempts,
                 todo, w_error, calls>>

\* watch(): the loop condition fails, watch() returns
WatchReturns ==
  /\ w_pc = "watch"
  /\ done_watching
  /\ w_pc' = "returned"
  /\ UNCHANGED <<done_watching, max_time_to_complete, job, pod_age, container, log_tail,
                 outcome, report,
                 retry_attempts, todo, w_error, calls>>

-----------------------------------------------------------------------------
(* Job creator: jobcreator/main.py, job_creator.py, script_acquisition.py  *)

HTTP_CREATED == 201

\* post_autoreduction_job: max_attempts
post_max_attempts == 3

Instruments == {"mari", "imat"}

\* _generate_special_pvs
_generate_special_pvs(instrument) == IF instrument = "imat" THEN <<"imat">> ELSE <<>>

archive_pv_suffix == <<"-", "a", "r", "c", "h", "i", "v", "e", "-", "p", "v", "-", "s", "m", "b">>
archive_pvc_suffix == <<"-", "a", "r", "c", "h", "i", "v", "e", "-", "p", "v", "c">>
extras_pv_suffix == <<"-", "e", "x", "t", "r", "a", "s", "-", "p", "v">>
extras_pvc_suffix == <<"-", "e", "x", "t", "r", "a", "s", "-", "p", "v", "c">>
ceph_pv_suffix == <<"-", "c", "e", "p", "h", "-", "p", "v">>
ceph_pvc_suffix == <<"-", "c", "e", "p", "h", "-", "p", "v", "c">>
imat_pv_suffix == <<"-", "n", "d", "x", "i", "m", "a", "t", "-", "p", "v", "-", "s", "m", "b">>
imat_pvc_suffix == <<"-", "n", "d", "x", "i", "m", "a", "t", "-", "p", "v", "c">>

\* one cluster call of spawn_job, with the names appended to pv_names and pvc_names
\* once it has returned
Step(op, suffix, pvs, pvcs) == [op |-> op, suffix |-> suffix, pvs |-> pvs, pvcs |-> pvcs]

\* a _setup_imat_pv_and_pvcs that creates the share's PV and PVC without recording them
SpawnPlan_imat_unrecorded(dev, special) ==
  <<Step("create_pv", archive_pv_suffix, <<archive_pv_suffix>>, <<>>),
    Step("create_pvc", archive_pvc_suffix, <<>>, <<archive_pvc_suffix>>),
    Step("create_pv", extras_pv_suffix, <<extras_pv_suffix>>, <<>>),
    Step("create_pvc", extras_pvc_suffix, <<>>, <<extras_pvc_suffix>>)>>
  \o (IF ~dev
      THEN <<Step("create_pv", ceph_pv_suffix, <<ceph_pv_suffix>>, <<>>),
             Step("create_pvc", ceph_pvc_suffix, <<>>, <<ceph_pvc_suffix>>)>>
      ELSE <<>>)
  \o (IF "imat" \in Range(special)
      THEN <<Step("create_pv", imat_pv_suffix, <<>>, <<>>),
             Step("create_pvc", imat_pvc_suffix, <<>>, <<>>)>>
      ELSE <<>>)

\* a spawn_job that sets up the output volume before the extras share
SpawnPlan_output_before_extras(dev, special) ==
  <<Step("create_pv", archive_pv_suffix, <<archive_pv_suffix>>, <<>>),
    Step("create_pvc", archive_pvc_suffix, <<>>, <<archive_pvc_suffix>>)>>
  \o (IF ~dev
      THEN <<Step("create_pv", ceph_pv_suffix, <<ceph_pv_suffix>>, <<>>),
             Step("create_pvc", ceph_pvc_suffix, <<>>, <<ceph_pvc_suffix>>)>>
      ELSE <<>>)
  \o <<Step("create_pv", extras_pv_suffix, <<extras_pv_suffix>>, <<>>),
       Step("create_pvc", extras_pvc_suffix, <<>>, <<extras_pvc_suffix>>)>>
  \o (IF "imat" \in Range(special)
      THEN <<Step("create_pv", imat_pv_suffix, <<>>, <<>>),
             Step("create_pvc", imat_pvc_suffix, <<imat_pv_suffix>>, <<imat_pvc_suffix>>)>>
      ELSE <<>>)

\* spawn_job, lines 286-383: the PV and PVC creations in program order
SpawnPlan(dev, special) ==
  <<Step("create_pv", archive_pv_suffix, <<archive_pv_suffix>>, <<>>),
    Step("create_pvc", archive_pvc_suffix, <<>>, <<archive_pvc_suffix>>),
    Step("create_pv", extras_pv_suffix, <<extras_pv_suffix>>, <<>>),
    Step("create_pvc", extras_pvc_suffix, <<>>, <<extras_pvc_suffix>>)>>
  \o (IF ~dev
      THEN <<Step("create_pv", ceph_pv_suffix, <<ceph_pv_suffix>>, <<>>),
             Step("create_pvc", ceph_pvc_suffix, <<>>, <<ceph_pvc_suffix>>)>>
      ELSE <<>>)
  \o (IF "imat" \in Range(special)
      THEN <<Step("create_pv", imat_pv_suffix, <<>>, <<>>),
             Step("create_pvc", imat_pvc_suffix, <<imat_pv_suffix>>, <<imat_pvc_suffix>>)>>
      ELSE <<>>)

\* volume and claim names built from the job name without its last 32 characters, the
\* place of the uuid digits
Named_without_hex(name, suffixes) ==
  [i \in 1..Len(suffixes) |-> SubSeq(name, 1, Len(name) - 32) \o suffixes[i]]

\* f"{job_name}{suffix}" for each suffix
Named(name, suffixes) == [i \in 1..Len(suffixes) |-> name \o suffixes[i]]

\* a volume that never receives the output of a job of the development cluster
ceph_volume_always_claim(dev, name) ==
  [name |-> "ceph-mount", mount_path |-> "/output", source |-> "persistent_volume_claim",
   size_limit |-> "", claim_name |-> name \o ceph_pvc_suffix]

\* spawn_job, lines 320-349 and 373: the volume mounted at /output
ceph_volume(dev, name) ==
  IF ~dev
  THEN [name |-> "ceph-mount", mount_path |-> "/output", source |-> "persistent_volume_claim",
        size_limit |-> "", claim_name |-> name \o ceph_pvc_suffix]
  ELSE [name |-> "ceph-mount", mount_path |-> "/output", source |-> "empty_dir",
        size_limit |-> "100Gi", claim_name |-> <<>>]

NoVolume ==
  [name |-> "", mount_path |-> "", source |-> "", size_limit |-> "", claim_name |-> <<>>]

-----------------------------------------------------------------------------
(* Python values of the message fields `taints` and `affinity`, and their   *)
(* texts.  A text is a sequence of tokens: punctuation, or a string literal *)
(* together with the quote character it is written with.                   *)

Tok(t, q) == [t |-> t, q |-> q]

Punct(t) == Tok(t, "")

\* a Python value: its type and, for a str, a list or a dict, its content as tokens
PyValue(type, toks) == [type |-> type, toks |-> toks]

PyNone == PyValue("NoneType", <<>>)

\* str(x): a str is itself; a list or a dict is written by repr, every string literal in
\* single quotes
py_str(x) ==
  CASE x.type = "str" -> x.toks
    [] x.type = "NoneType" -> <<Punct("None")>>
    [] OTHER -> [i \in 1..Len(x.toks) |->
                  IF x.toks[i].q = "" THEN x.toks[i] ELSE Tok(x.toks[i].t, "'")]

JSONDecodeError == PyValue("JSONDecodeError", <<>>)

\* the numbers written in the texts of the model
JsonNumbers == {"1", "5"}

\* json.loads(text): JSON string literals are written in double quotes, anything else
\* raises; a lone number is an int, a lone string literal a str, and the value is a list
\* or a dict by its brackets
json_loads(text) ==
  IF text = <<>> \/ \E i \in 1..Len(text) : text[i].q = "'"
  THEN JSONDecodeError
  ELSE IF Len(text) = 1 /\ text[1].q = "" /\ text[1].t \in JsonNumbers
  THEN PyValue("int", text)
  ELSE IF Len(text) = 1 /\ text[1].q = "\""
  THEN PyValue("str", <<Punct(text[1].t)>>)
  ELSE IF Head(text) = Punct("[") /\ text[Len(text)] = Punct("]")
  THEN PyValue("list", [i \in 1..Len(text) |->
                          IF text[i].q = "" THEN text[i] ELSE Tok(text[i].t, "\"")])
  ELSE IF Head(text) = Punct("{") /\ text[Len(text)] = Punct("}")
  THEN PyValue("dict", [i \in 1..Len(text) |->
                          IF text[i].q = "" THEN text[i] ELSE Tok(text[i].t, "\"")])
  ELSE JSONDecodeError

\* the position of the key in the text of a dict, 0 if it has none
KeyIdx(toks, key) ==
  LET hits == {i \in 1..(Len(toks) - 2) : toks[i] = Tok(key, "\"") /\ toks[i + 1] = Punct(":")}
  IN IF hits = {} THEN 0 ELSE CHOOSE i \in hits : \A k \in hits : k <= i

\* the last token of the value that starts at position i: a list ends at its bracket
ValueEnd(toks, i) ==
  IF toks[i] = Punct("[")
  THEN CHOOSE k \in i..Len(toks) : toks[k] = Punct("]") /\ \A m \in i..(k - 1) : toks[m] # Punct("]")
  ELSE i

\* dict.get(key, default)
dict_get(d, key, default) ==
  LET k == KeyIdx(d.toks, key)
  IN IF k = 0 THEN default
     ELSE json_loads(SubSeq(d.toks, k + 2, ValueEnd(d.toks, k + 2)))

\* the elements of a list of dicts: the text of each, from its brace to its brace
list_items(l) ==
  LET toks == l.toks
      opens == {i \in 1..Len(toks) : toks[i] = Punct("{")}
      close(i) == CHOOSE k \in i..Len(toks) :
                    toks[k] = Punct("}") /\ \A m \in i..(k - 1) : toks[m] # Punct("}")
      nth(n) == CHOOSE i \in opens : Cardinality({j \in opens : j < i}) = n - 1
  IN [n \in 1..Cardinality(opens) |-> PyValue("dict", SubSeq(toks, nth(n), close(nth(n))))]

EmptyListText == <<Punct("["), Punct("]")>>

EmptyDictText == <<Punct("{"), Punct("}")>>

\* [{"key": "nvidia.com/gpu", "effect": "NoSchedule", "operator": "Exists"}]
TaintsText ==
  <<Punct("["), Punct("{"),
    Tok("key", "\""), Punct(":"), Tok("nvidia.com/gpu", "\""), Punct(","),
    Tok("effect", "\""), Punct(":"), Tok("NoSchedule", "\""), Punct(","),
    Tok("operator", "\""), Punct(":"), Tok("Exists", "\""),
    Punct("}"), Punct("]")>>

\* [{"key": "dedicated", "value": "fia", "effect": "NoExecute", "operator": "Equal"},
\*  {"key": "nvidia.com/gpu", "effect": "NoSchedule", "operator": "Exists"}]
TwoTaintsText ==
  <<Punct("["), Punct("{"),
    Tok("key", "\""), Punct(":"), Tok("dedicated", "\""), Punct(","),
    Tok("value", "\""), Punct(":"), Tok("fia", "\""), Punct(","),
    Tok("effect", "\""), Punct(":"), Tok("NoExecute", "\""), Punct(","),
    Tok("operator", "\""), Punct(":"), Tok("Equal", "\""),
    Punct("}"), Punct(",")>> \o Tail(TaintsText)

\* {"key": "node-type", "operator": "In", "values": ["gpu-worker"]}
AffinityText ==
  <<Punct("{"),
    Tok("key", "\""), Punct(":"), Tok("node-type", "\""), Punct(","),
    Tok("operator", "\""), Punct(":"), Tok("In", "\""), Punct(","),
    Tok("values", "\""), Punct(":"), Punct("["), Tok("gpu-worker", "\""), Punct("]"),
    Punct("}")>>

\* the `taints` of a simple message: absent, a JSON string of no, of one or of two taints,
\* or the taints as a JSON array of the message itself
TaintsFields ==
  {PyNone, PyValue("str", EmptyListText), PyValue("str", TaintsText),
   PyValue("str", TwoTaintsText), PyValue("list", TaintsText)}

\* the `affinity` of a simple message: absent, or a JSON string
AffinityFields == {PyNone, PyValue("str", AffinityText)}

\* _select_taints_and_affinity: the scheduling policy of the instrument
_select_taints_and_affinity(instrument) ==
  IF instrument = "imat"
  THEN [taints |-> PyValue("list", TaintsText), affinity |-> PyValue("dict", AffinityText)]
  ELSE [taints |-> PyValue("list", EmptyListText), affinity |-> PyNone]

NoAffinity == [pod_anti_affinity |-> "", node_affinity |-> ""]

\* _generate_affinities: the preferred pod anti-affinity, and the required node affinity
\* for node-type In [gpu-worker] when node_affinity_dict is not None
_generate_affinities(node_affinity_dict) ==
  [pod_anti_affinity |-> "preferred",
   node_affinity |-> IF node_affinity_dict # PyNone THEN "required" ELSE "none"]

V1Toleration(value, key, operator, effect) ==
  [value |-> value, key |-> key, operator |-> operator, effect |-> effect]

\* _generate_tolerations_from_taints: one V1Toleration per taint, in the order of the list
_generate_tolerations_from_taints(taints) ==
  LET items == list_items(taints)
  IN [n \in 1..Len(items) |->
        V1Toleration(dict_get(items[n], "value", PyNone), dict_get(items[n], "key", PyNone),
                     dict_get(items[n], "operator", PyNone),
                     dict_get(items[n], "effect", PyNone))]

NoJob ==
  [name |-> <<>>, pvs |-> <<>>, pvcs |-> <<>>, ceph_volume |-> NoVolume,
   affinity |-> NoAffinity, tolerations |-> <<>>]

\* spawn_job, lines 415-454: the V1Job with its metadata, its /output volume and the
\* affinity and tolerations of its pods
V1Job(metadata, volume, affinity, tolerations) ==
  [name |-> metadata.name, pvs |-> metadata.pvs, pvcs |-> metadata.pvcs,
   ceph_volume |-> volume, affinity |-> affinity, tolerations |-> tolerations]

\* spawn_job, lines 439-447: the V1Job's name and list annotations
JobMetadata(name, pvs, pvcs) ==
  [name |-> name, pvs |-> PyStrList(pvs), pvcs |-> PyStrList(pvcs)]

-----------------------------------------------------------------------------
(* Job creator: the messages and what the handlers compute from them.      *)

\* str(x) of a message field: a string is itself, None is "None"
PyStr(x) == IF x = NoneVal THEN NoneStr ELSE x

UpperCase == <<"A", "B", "C", "D", "E", "F", "G", "H", "I", "J", "K", "L", "M",
               "N", "O", "P", "Q", "R", "S", "T", "U", "V", "W", "X", "Y", "Z">>

LowerCase == <<"a", "b", "c", "d", "e", "f", "g", "h", "i", "j", "k", "l", "m",
               "n", "o", "p", "q", "r", "s", "t", "u", "v", "w", "x", "y", "z">>

LowerChar(c) ==
  IF \E i \in 1..Len(UpperCase) : UpperCase[i] = c
  THEN LowerCase[CHOOSE i \in 1..Len(UpperCase) : UpperCase[i] = c]
  ELSE c

\* str.lower
PyLower(s) == [i \in 1..Len(s) |-> LowerChar(s[i])]

\* uuid.uuid4().hex: 32 hexadecimal digits.  Three values: the second differs from the
\* first in its last digit only, the third in its first digit only.
Hexes ==
  {[i \in 1..32 |-> "a"],
   [i \in 1..32 |-> IF i = 32 THEN "b" ELSE "a"],
   [i \in 1..32 |-> IF i = 1 THEN "b" ELSE "a"]}

\* a decoded message: job_type ("<absent>" when the key is missing), whether the keys the
\* chosen handler subscripts are all present, the owner fields and the type of the job_id
\* of a simple message, the file name (the stem of filepath) and instrument of the other
\* two
Message(jt, complete, user, experiment, id_is_int, filename, instrument) ==
  [job_type |-> jt, complete |-> complete, user_number |-> user,
   experiment_number |-> experiment, job_id |-> IF id_is_int THEN "int" ELSE "str",
   filename |-> filename, instrument |-> instrument,
   taints |-> PyNone, affinity |-> PyNone]

NoMessage == Message("", FALSE, NoneVal, NoneVal, FALSE, <<>>, "")

\* user_number: absent, one digit, thirty digits
UserNumbers == {NoneVal, <<"7">>, [i \in 1..30 |-> "1"]}

ExperimentNumbers == {NoneVal, <<"9">>}

Filenames ==
  {<<"M", "A", "R", "1">>,
   <<"P", "O", "L", "R", "E", "F", "0", "0", "0", "1", "2", "3", "4", "5">>}

\* the type of the `job_id` of a simple message once decoded: a JSON number without
\* fraction is an int, true and false are bool, an absent key reads as None
JobIdTypes == {"int", "str", "float", "bool", "NoneType"}

\* isinstance(job_id, int): bool is a subclass of int
isinstance_int(type) == type \in {"int", "bool"}

SimpleMessages ==
  {Message("simple", TRUE, u, e, TRUE, <<>>, "") : u \in UserNumbers, e \in ExperimentNumbers}
  \cup {Message("simple", TRUE, <<"7">>, NoneVal, FALSE, <<>>, ""),
        Message("simple", FALSE, <<"7">>, NoneVal, TRUE, <<>>, "")}
  \cup {[Message("simple", TRUE, <<"7">>, NoneVal, TRUE, <<>>, "")
           EXCEPT !.taints = t, !.affinity = a] : t \in TaintsFields, a \in AffinityFields}
  \cup {[Message("simple", TRUE, <<"7">>, NoneVal, FALSE, <<>>, "")
           EXCEPT !.job_id = t] : t \in JobIdTypes}

FileMessages(jt) ==
  {Message(jt, TRUE, NoneVal, NoneVal, TRUE, f, i) : f \in Filenames, i \in Instruments}
  \cup {Message(jt, FALSE, NoneVal, NoneVal, TRUE, <<"M", "A", "R", "1">>, "mari")}

\* job_type values that no case of process_message names
UnrecognisedMessages ==
  {Message(jt, TRUE, <<"7">>, NoneVal, TRUE, <<"M", "A", "R", "1">>, "mari") :
     jt \in {"Simple", "<null>"}}

Messages ==
  SimpleMessages \cup FileMessages("rerun") \cup FileMessages("autoreduction")
  \cup FileMessages("<absent>") \cup UnrecognisedMessages

\* process_message, line 288: message.get("job_type", "autoreduction")
JobTypeOf(m) == IF m.job_type = "<absent>" THEN "autoreduction" ELSE m.job_type

\* a process_message whose default case starts an autoreduction
PathOf_default_autoreduction(jt) ==
  IF jt \in {"simple", "rerun", "autoreduction"} THEN jt ELSE "autoreduction"

\* process_message, lines 289-300: the case the match statement selects
PathOf(jt) == IF jt \in {"simple", "rerun", "autoreduction"} THEN jt ELSE "none"

\* truth value of a message field: None and the empty string are false
Truthy(x) == x # NoneVal /\ x # <<>>

\* process_simple_message, lines 135-144
simple_job_name(m, h) ==
  LET owner == IF Truthy(m.user_number) THEN m.user_number ELSE m.experiment_number
      name == <<"r", "u", "n", "-", "o", "w", "n", "e", "r">> \o PyLower(PyStr(owner))
              \o <<"-", "r", "e", "q", "u", "e", "s", "t", "e", "d", "-">> \o h
  IN IF Len(name) > 50 THEN SubSeq(name, 1, 50) ELSE name

\* process_rerun_message, line 192
rerun_job_name(m, h) ==
  <<"r", "u", "n", "-">> \o PyLower(PyStr(m.filename)) \o <<"-">> \o h

\* process_autoreduction_message, line 249
autoreduction_job_name(m, h) ==
  <<"r", "u", "n", "-">> \o PyLower(m.filename) \o <<"-">> \o h

\* process_simple_message, lines 126-128: the taints handed to spawn_job
simple_taints(m) ==
  IF m.taints # PyNone THEN json_loads(py_str(m.taints)) ELSE PyValue("list", EmptyListText)

\* process_simple_message, lines 129-130: the affinity handed to spawn_job
simple_affinity(m) ==
  IF m.affinity # PyNone
  THEN json_loads(py_str(simple_taints(m)))
  ELSE PyValue("dict", EmptyDictText)

\* the taints argument of the spawn_job call of the path
taints_argument(path, m) ==
  IF path = "simple" THEN simple_taints(m)
  ELSE _select_taints_and_affinity(m.instrument).taints

\* the affinity argument of the spawn_job call of the path
affinity_argument(path, m) ==
  IF path = "simple" THEN simple_affinity(m)
  ELSE _select_taints_and_affinity(m.instrument).affinity

\* process_simple_message, lines 145-147
ceph_mount_path_kwargs(m) ==
  IF Truthy(m.user_number)
  THEN [user_number |-> PyStr(m.user_number), experiment_number |-> NoneVal]
  ELSE [user_number |-> NoneVal, experiment_number |-> PyStr(m.experiment_number)]

ValueErrorVal == <<"<ValueError>">>

\* create_ceph_mount_path_simple: the directory under /ceph/GENERIC/autoreduce, or the
\* ValueError it raises
create_ceph_mount_path_simple(kw) ==
  IF kw.user_number # NoneVal /\ kw.experiment_number = NoneVal
  THEN <<"UserNumbers/">> \o kw.user_number
  ELSE IF kw.experiment_number # NoneVal /\ kw.user_number = NoneVal
  THEN <<"ExperimentNumbers/">> \o kw.experiment_number
  ELSE ValueErrorVal

\* create_ceph_mount_path_autoreduction: the directory of the instrument's RB number
autoreduced_path(m) == <<"/ceph/", m.instrument, "/RBNumber/">>

\* the 201 responses of the FIA API: a script and the id of the stored job
Response(code, script, id) == [status_code |-> code, script |-> script, job_id |-> id]

PostResponses ==
  {Response(HTTP_CREATED, "script_1", 1), Response(HTTP_CREATED, "script_2", 2),
   Response(HTTP_INTERNAL_SERVER_ERROR, "", 0)}

NoResult == [script |-> "", job_id |-> 0]

\* a post_autoreduction_job that returns the payload of its first response
PostResult_first(rs) == [script |-> rs[1].script, job_id |-> rs[1].job_id]

\* post_autoreduction_job, line 34: the payload of the response just received
PostResult(rs) == [script |-> rs[Len(rs)].script, job_id |-> rs[Len(rs)].job_id]

\* a loop that gives up one attempt earlier
PostMayRetry_strict(n) == n < post_max_attempts

\* post_autoreduction_job, line 23: while retry_attempt <= max_attempts
PostMayRetry(n) == n <= post_max_attempts

\* handlers without their try/except: the exception leaves process_message
StepOnHandlerError_uncaught == "escaped"

\* process_*_message: `except Exception` logs and the handler returns
StepOnHandlerError == "handled"

\* a spawn_job that swallows the failure of a creation and goes on to submit the job
StepOnCreateError_swallowed == "spawn"

\* spawn_job and the _setup_* functions have no try/except: the ApiException of a
\* creation leaves spawn_job and reaches the except clause of the message handler
StepOnCreateError == StepOnHandlerError

\* a _message_handler without its except clause
StepOnDecodeError_uncaught == "escaped"

\* _message_handler: JSONDecodeError is logged and the handler returns
StepOnDecodeError == "handled"

CInit ==
  /\ c_pc = "idle"
  /\ dev_mode \in BOOLEAN
  /\ delivered = <<>>
  /\ msg = NoMessage
  /\ hex = <<>>
  /\ job_type = ""
  /\ job_name = <<>>
  /\ special_pvs = <<>>
  /\ plan = <<>>
  /\ pv_names = <<>>
  /\ pvc_names = <<>>
  /\ retry_attempt = 0
  /\ responses = <<>>
  /\ acquired = NoResult
  /\ submitted = NoJob
  /\ c_error = ""
  /\ c_calls = <<>>

\* start_consuming, lines 81-86: the broker delivers a message; the handlers start with
\* fresh locals
Deliver(kind, m) ==
  /\ c_pc = "idle"
  /\ Len(delivered) < MaxMessages
  /\ delivered' = Append(delivered, [kind |-> kind, acks |-> 0])
  /\ msg' = m
  /\ pv_names' = <<>>
  /\ pvc_names' = <<>>
  /\ retry_attempt' = 0
  /\ responses' = <<>>
  /\ acquired' = NoResult
  /\ submitted' = NoJob
  /\ UNCHANGED dev_mode

\* the message is dropped before a job name is generated: nothing is left to spawn
Dropped(path, error, made, step) ==
  /\ job_type' = path
  /\ hex' = <<>>
  /\ job_name' = <<>>
  /\ special_pvs' = <<>>
  /\ plan' = <<>>
  /\ c_error' = error
  /\ c_calls' = made
  /\ c_pc' = step

\* start_consuming, lines 86 and 91-92: body.decode() raises, a warning is logged
ConsumeUndecodable ==
  /\ Deliver("undecodable", NoMessage)
  /\ Dropped("", "UnicodeDecodeError", <<>>, "escaped")

\* _message_handler, lines 63 and 66-67: json.loads raises JSONDecodeError
ConsumeNotJson ==
  /\ Deliver("not_json", NoMessage)
  /\ Dropped("", "JSONDecodeError", <<>>, StepOnDecodeError)

\* _message_handler -> process_message, line 288: the decoded value is no mapping, so
\* message.get raises AttributeError
ConsumeNotObject ==
  /\ Deliver("not_object", NoMessage)
  /\ Dropped("", "AttributeError", <<>>, "escaped")

\* find_sha256_of_image: the lookup of the image's digest at the registry
ImageLookup == Call("GET", <<>>, 1, "")

\* process_message -> process_simple_message, up to the call of spawn_job
ReceiveSimple ==
  \E m \in Messages :
    /\ PathOf(JobTypeOf(m)) = "simple"
    /\ Deliver("object", m)
    /\ IF ~m.complete
       THEN Dropped("simple", "KeyError", <<>>, StepOnHandlerError)
       ELSE IF JSONDecodeError \in {simple_taints(m), simple_affinity(m)}
       THEN Dropped("simple", "JSONDecodeError", <<ImageLookup>>, StepOnHandlerError)
       ELSE IF ~isinstance_int(m.job_id)
       THEN Dropped("simple", "ValueError", <<ImageLookup>>, StepOnHandlerError)
       ELSE LET path == create_ceph_mount_path_simple(ceph_mount_path_kwargs(m))
            IN IF path = ValueErrorVal
               THEN Dropped("simple", "ValueError", <<ImageLookup>>, StepOnHandlerError)
               ELSE \E h \in Hexes :
                      /\ hex' = h
                      /\ job_type' = "simple"
                      /\ job_name' = simple_job_name(m, h)
                      /\ c_calls' = <<ImageLookup, Call("mkdir", path, 1, "")>>
                      /\ special_pvs' = <<>>
                      /\ plan' = SpawnPlan(dev_mode, special_pvs')
                      /\ c_error' = ""
                      /\ c_pc' = "spawn"

\* process_message -> process_rerun_message, up to the call of spawn_job
ReceiveRerun ==
  \E m \in Messages :
    /\ PathOf(JobTypeOf(m)) = "rerun"
    /\ Deliver("object", m)
    /\ IF ~m.complete
       THEN Dropped("rerun", "KeyError", <<>>, StepOnHandlerError)
       ELSE \E h \in Hexes :
              /\ hex' = h
              /\ job_type' = "rerun"
              /\ c_calls' = <<ImageLookup, Call("mkdir", autoreduced_path(m), 1, "")>>
              /\ special_pvs' = _generate_special_pvs(m.instrument)
              /\ job_name' = rerun_job_name(m, h)
              /\ plan' = SpawnPlan(dev_mode, special_pvs')
              /\ c_error' = ""
              /\ c_pc' = "spawn"

\* process_message -> process_autoreduction_message, up to post_autoreduction_job
ReceiveAutoreduction ==
  \E m \in Messages :
    /\ PathOf(JobTypeOf(m)) = "autoreduction"
    /\ Deliver("object", m)
    /\ IF ~m.complete
       THEN Dropped("autoreduction", "KeyError", <<>>, StepOnHandlerError)
       ELSE \E h \in Hexes :
              /\ hex' = h
              /\ job_type' = "autoreduction"
              /\ c_calls' = <<>>
              /\ special_pvs' = _generate_special_pvs(m.instrument)
              /\ job_name' = autoreduction_job_name(m, h)
              /\ plan' = <<>>
              /\ c_error' = ""
              /\ c_pc' = "post"

\* process_message, lines 299-300: no case matches, a warning is logged
ReceiveUnrecognised ==
  \E m \in Messages :
    /\ PathOf(JobTypeOf(m)) = "none"
    /\ Deliver("object", m)
    /\ Dropped("none", "", <<>>, "handled")

\* post_autoreduction_job: one pass of the while loop; on a 201 the handler goes on to
\* create_ceph_mount_path_autoreduction and spawn_job
PostAutoreductionAttempt ==
  /\ c_pc = "post"
  /\ \E response \in PostResponses :
       LET sent == Append(c_calls, Call("POST", <<>>, response.status_code, ""))
       IN /\ responses' = Append(responses, response)
          /\ IF response.status_code # HTTP_CREATED
             THEN /\ retry_attempt' = retry_attempt + 1
                  /\ c_calls' = Append(sent, Call("sleep", <<>>, 3 + retry_attempt', ""))
                  /\ IF PostMayRetry(retry_attempt')
                     THEN /\ c_pc' = "post"
                          /\ UNCHANGED <<c_error, plan, acquired>>
                     ELSE /\ c_pc' = StepOnHandlerError
                          /\ c_error' = "RuntimeError"
                          /\ UNCHANGED <<plan, acquired>>
             ELSE /\ acquired' = PostResult(responses')
                  /\ c_calls' = Append(sent, Call("mkdir", autoreduced_path(msg), 1, ""))
                  /\ plan' = SpawnPlan(dev_mode, special_pvs)
                  /\ c_pc' = "spawn"
                  /\ UNCHANGED <<retry_attempt, c_error>>
  /\ UNCHANGED <<dev_mode, delivered, msg, hex, job_type, job_name, special_pvs, pv_names,
                 pvc_names, submitted>>

\* post_autoreduction_job: requests.post raises; process_autoreduction_message logs it
PostAutoreductionRaises ==
  /\ c_pc = "post"
  /\ c_calls' = Append(c_calls, Call("POST", <<>>, NoResponse, ""))
  /\ c_error' = "post"
  /\ c_pc' = StepOnHandlerError
  /\ UNCHANGED <<dev_mode, delivered, msg, hex, job_type, job_name, special_pvs, plan,
                 pv_names, pvc_names, retry_attempt, responses, acquired, submitted>>

\* spawn_job: the next PV or PVC creation; a failure is caught by the message handler
SpawnCreate ==
  /\ c_pc = "spawn"
  /\ plan # <<>>
  /\ LET step == Head(plan)
     IN \E ok \in BOOLEAN :
          /\ c_calls' = Append(c_calls, Call(step.op, job_name \o step.suffix,
                                             IF ok THEN 1 ELSE 0, ""))
          /\ IF ok
             THEN /\ pv_names' = pv_names \o Named(job_name, step.pvs)
                  /\ pvc_names' = pvc_names \o Named(job_name, step.pvcs)
                  /\ plan' = Tail(plan)
                  /\ UNCHANGED <<c_pc, c_error>>
             ELSE /\ c_error' = step.op
                  /\ c_pc' = StepOnCreateError
                  /\ plan' = <<>>
                  /\ UNCHANGED <<pv_names, pvc_names>>
  /\ UNCHANGED <<dev_mode, delivered, msg, hex, job_type, job_name, special_pvs,
                 retry_attempt, responses, acquired, submitted>>

\* spawn_job: create_namespaced_job, the last call
SubmitJob ==
  /\ c_pc = "spawn"
  /\ plan = <<>>
  /\ submitted' = V1Job(JobMetadata(job_name, pv_names, pvc_names),
                        ceph_volume(dev_mode, job_name),
                        _generate_affinities(affinity_argument(job_type, msg)),
                        _generate_tolerations_from_taints(taints_argument(job_type, msg)))
  /\ \E ok \in BOOLEAN :
       /\ c_calls' = Append(c_calls, Call("create_job", job_name, IF ok THEN 1 ELSE 0, ""))
       /\ c_error' = IF ok THEN "" ELSE "create_job"
       /\ c_pc' = IF ok THEN "handled" ELSE StepOnHandlerError
  /\ UNCHANGED <<dev_mode, delivered, msg, hex, job_type, job_name, special_pvs, plan,
                 pv_names, pvc_names, retry_attempt, responses, acquired>>

\* the handlers have returned: their locals are gone
Forget ==
  /\ msg' = NoMessage
  /\ hex' = <<>>
  /\ job_type' = ""
  /\ job_name' = <<>>
  /\ special_pvs' = <<>>
  /\ plan' = <<>>
  /\ pv_names' = <<>>
  /\ pvc_names' = <<>>
  /\ retry_attempt' = 0
  /\ responses' = <<>>
  /\ acquired' = NoResult
  /\ submitted' = NoJob
  /\ c_error' = ""
  /\ c_calls' = <<>>

\* start_consuming, line 87: _message_handler returned, the message is acknowledged
Acknowledge ==
  /\ c_pc = "handled"
  /\ delivered' = [delivered EXCEPT ![Len(delivered)].acks = @ + 1]
  /\ c_pc' = "idle"
  /\ Forget
  /\ UNCHANGED dev_mode

\* start_consuming, lines 88-95: an exception left _message_handler or body.decode();
\* the except clauses swallow it and the loop goes on without basic_ack
SkipAcknowledge ==
  /\ c_pc = "escaped"
  /\ c_pc' = "idle"
  /\ Forget
  /\ UNCHANGED <<dev_mode, delivered>>

-----------------------------------------------------------------------------
(* Image digest lookup: find_sha256_of_image.  An image reference is a     *)
(* sequence of tokens: the characters / : @ one by one, and the words      *)
(* between them.                                                           *)

\* a runner_image that is no str
NotAStr == <<"<int>">>

\* references written with one word and the separators, every one up to MaxRef tokens,
\* and the references of the registry's documentation and of the tests
ImageRefs ==
  SeqsUpTo({"a", "/", ":"}, MaxRef)
  \cup {<<"ghcr.io", "/", "fiaisis", "/", "mantid", ":", "6.9.1">>,
        <<"https", ":", "/", "/", "ghcr.io", "/", "fiaisis", "/", "mantid", ":", "6.9.1">>,
        <<"ghcr.io", "/", "fiaisis", "/", "mantid", "@", "sha256", ":", "6e5f">>,
        <<"ghcr.io", "/", "fiaisis", "/", "mantid", ":", "sha256", ":", "6e5f">>,
        <<"sha256", ":">>,
        <<"ghcr.io", "/", "fiaisis", "/", "mantid", ":", "sha256">>,
        <<"ghcr.io", "/", "fiaisis", "/", "mantid">>,
        <<"localhost", ":", "5000", "/", "fiaisis", "/", "mantid", ":", "6.9.1">>,
        NotAStr}

\* the token request raises, or its body is no JSON, or it is answered; then the manifest
\* request raises, or it is answered with some text
Registries ==
  {[token |-> "raises", manifest |-> ""],
   [token |-> "not_json", manifest |-> ""],
   [token |-> "ok", manifest |-> "raises"],
   [token |-> "ok", manifest |-> "manifest_1"],
   [token |-> "ok", manifest |-> "manifest_2"]}

NoRegistry == [token |-> "", manifest |-> ""]

\* hashlib.sha256(manifest).hexdigest(): 64 hexadecimal digits, by the text
sha256_hexdigest(manifest) == [i \in 1..64 |-> IF manifest = "manifest_1" THEN "6" ELSE "e"]

Parsed(error, org_name, image_name, version) ==
  [error |-> error, org_name |-> org_name, image_name |-> image_name, version |-> version]

\* get_org_image_name_and_version_from_image_path, or the exception it raises
get_org_image_name_and_version_from_image_path(image_path) ==
  LET schemes == PySplit(image_path, <<":", "/", "/">>)
      image_path_without_https == schemes[Len(schemes)]
      split_image_path == PySplit(image_path_without_https, <<"/">>)
  IN IF Len(split_image_path) < 3
     THEN Parsed("IndexError", <<>>, <<>>, <<>>)
     ELSE LET name_version == PySplit(split_image_path[3], <<":">>)
          IN IF Len(name_version) # 2
             THEN Parsed("ValueError", <<>>, <<>>, <<>>)
             ELSE Parsed("", split_image_path[2], name_version[1], name_version[2])

Request(url, user_image, version) == [url |-> url, user_image |-> user_image, version |-> version]

\* the outcome of a call: an exception that left it, or the value returned; the requests
\* sent to the registry; whether a warning was logged
Outcome(raised, value, requests, warned) ==
  [raised |-> raised, value |-> value, requests |-> requests, warned |-> warned]

NoOutcome == Outcome("", <<>>, <<>>, FALSE)

\* get_sha256_using_image_from_ghcr: the digest of the manifest, or the exception raised
get_sha256_using_image_from_ghcr(user_image, version, reg) ==
  LET tags == PySplit(version, <<":">>)
      tag == IF ":" \in Range(version) THEN tags[Len(tags)] ELSE version
      token_request == Request("token", user_image, <<>>)
      manifest_request == Request("manifests", user_image, tag)
  IN IF reg.token = "raises"
     THEN Outcome("RequestException", <<>>, <<token_request>>, FALSE)
     ELSE IF reg.token = "not_json"
     THEN Outcome("JSONDecodeError", <<>>, <<token_request>>, FALSE)
     ELSE IF reg.manifest = "raises"
     THEN Outcome("RequestException", <<>>, <<token_request, manifest_request>>, FALSE)
     ELSE Outcome("", sha256_hexdigest(reg.manifest), <<token_request, manifest_request>>,
                  FALSE)

\* find_sha256_of_image, lines 181-188: the body of the try statement
find_sha256_of_image_body(img, reg) ==
  IF img = NotAStr
  THEN Outcome("TypeError", <<>>, <<>>, FALSE)
  ELSE IF FindSep(img, <<"sha256", ":">>) # 0
  THEN Outcome("", img, <<>>, FALSE)
  ELSE LET parsed == get_org_image_name_and_version_from_image_path(img)
           user_image == parsed.org_name \o <<"/">> \o parsed.image_name
           version_to_use == get_sha256_using_image_from_ghcr(user_image, parsed.version, reg)
       IN IF parsed.error # ""
          THEN Outcome(parsed.error, <<>>, <<>>, FALSE)
          ELSE IF version_to_use.raised # ""
          THEN version_to_use
          ELSE Outcome("", <<"ghcr.io", "/">> \o parsed.org_name \o <<"/">>
                           \o parsed.image_name \o <<"@", "sha256", ":">>
                           \o version_to_use.value,
                       version_to_use.requests, FALSE)

\* a find_sha256_of_image without its try statement
find_sha256_of_image_uncaught(img, reg) == find_sha256_of_image_body(img, reg)

\* find_sha256_of_image: `except Exception` logs a warning and returns the input
find_sha256_of_image(img, reg) ==
  LET body == find_sha256_of_image_body(img, reg)
  IN IF body.raised # "" THEN Outcome("", img, body.requests, TRUE) ELSE body

\* a call of find_sha256_of_image is about to be made
IInit ==
  /\ i_pc = "call"
  /\ image \in ImageRefs
  /\ registry \in Registries
  /\ resolved = NoOutcome

FindSha256OfImage ==
  /\ i_pc = "call"
  /\ resolved' = find_sha256_of_image(image, registry)
  /\ i_pc' = IF resolved'.raised # "" THEN "raised" ELSE "returned"
  /\ UNCHANGED <<image, registry>>

-----------------------------------------------------------------------------
(* The watcher's reading of the main container's log: process_job_success  *)
(* and process_job_failed.  A log is a text: the tokens of its lines, and  *)
(* the newline token between them.                                         *)

NL == Punct("\n")

\* StateString: the states the API knows
StateString == {"SUCCESSFUL", "UNSUCCESSFUL", "ERROR", "NOT_STARTED"}

\* {"status": "Successful", "output_files": ["out.nxs"]}
ObjSuccessful ==
  <<Punct("{"), Tok("status", "\""), Punct(":"), Tok("Successful", "\""), Punct(","),
    Tok("output_files", "\""), Punct(":"), Punct("["), Tok("out.nxs", "\""), Punct("]"),
    Punct("}")>>

\* {"status": "partial"}
ObjPartial == <<Punct("{"), Tok("status", "\""), Punct(":"), Tok("partial", "\""), Punct("}")>>

\* {"status_message": "done"}
ObjNoStatus ==
  <<Punct("{"), Tok("status_message", "\""), Punct(":"), Tok("done", "\""), Punct("}")>>

\* [1]
JsonList == <<Punct("["), Punct("1"), Punct("]")>>

\* 5
JsonNumber == <<Punct("5")>>

PlainLine == <<Punct("done")>>

TracebackLine == <<Punct("Traceback (most recent call last):")>>

FrameLine == <<Punct("File"), Punct("script.py")>>

\* ValueError: bad
ValueErrorLine == <<Punct("Value"), Punct("Error:"), Punct("bad")>>

\* KeyError: x
KeyErrorLine == <<Punct("Key"), Punct("Error:"), Punct("x")>>

\* the lines of the log of a script that ended, and of one that failed
SuccessLines == {ObjSuccessful, ObjPartial, ObjNoStatus, JsonList, JsonNumber, PlainLine, <<>>}

FailureLines == {TracebackLine, FrameLine, ValueErrorLine, KeyErrorLine, PlainLine, <<>>}

RECURSIVE JoinLines(_)
\* "\n".join(lines)
JoinLines(lines) ==
  IF lines = <<>> THEN <<>>
  ELSE IF Len(lines) = 1 THEN lines[1]
  ELSE lines[1] \o <<NL>> \o JoinLines(Tail(lines))

\* the logs read_namespaced_pod_log may return: up to MaxLog lines, with or without a
\* newline after the last one
Logs ==
  {JoinLines(ls) \o (IF newline THEN <<NL>> ELSE <<>>) :
     ls \in SeqsUpTo(SuccessLines, MaxLog) \cup SeqsUpTo(FailureLines, MaxLog),
     newline \in BOOLEAN}

\* list.reverse()
Reverse(l) == [i \in 1..Len(l) |-> l[Len(l) + 1 - i]]

PyStrOf(t) == PyValue("str", <<Punct(t)>>)

EmptyStr == PyValue("str", <<>>)

EmptyList == PyValue("list", EmptyListText)

\* what process_job_success or process_job_failed did: the exception that left it, the
\* output line it chose, the number of _update_job_status calls and their arguments
Processed(path, raised, output, reports, state, status_message, output_files, stacktrace) ==
  [path |-> path, raised |-> raised, output |-> output, reports |-> reports,
   state |-> state, status_message |-> status_message, output_files |-> output_files,
   stacktrace |-> stacktrace]

NotProcessed == Processed("", "", <<>>, 0, "", EmptyStr, EmptyList, EmptyStr)

\* process_job_success, lines 355-357: the line handed to json.loads
output_line(logs) ==
  LET log_lines == PySplit(logs, <<NL>>)
  IN IF Len(log_lines) = 1 THEN log_lines[Len(log_lines)] ELSE log_lines[Len(log_lines) - 1]

\* process_job_success, lines 363-386: the job_output of the except clauses
synthesised(exception) ==
  [type |-> "synthesised", status |-> PyStrOf("UNSUCCESSFUL"), status_message |-> PyStrOf(exception),
   output_files |-> EmptyList, stacktrace |-> EmptyStr]

\* process_job_success, lines 351-386: job_output
job_output_of(logs, read) ==
  IF read = "raises" THEN synthesised("ApiException")
  ELSE LET parsed == json_loads(output_line(logs))
       IN IF parsed = JSONDecodeError THEN synthesised("JSONDecodeError")
          ELSE IF parsed.type # "dict"
          THEN [type |-> parsed.type, status |-> EmptyStr, status_message |-> EmptyStr,
                output_files |-> EmptyList, stacktrace |-> EmptyStr]
          ELSE [type |-> "dict",
                status |-> dict_get(parsed, "status", PyStrOf("UNSUCCESSFUL")),
                status_message |-> dict_get(parsed, "status_message", EmptyStr),
                output_files |-> dict_get(parsed, "output_files", EmptyList),
                stacktrace |-> dict_get(parsed, "stacktrace", EmptyStr)]

\* process_job_success
process_job_success(logs, read) ==
  LET output == IF read = "raises" THEN <<>> ELSE output_line(logs)
      job_output == job_output_of(logs, read)
  IN IF job_output.type \notin {"dict", "synthesised"} \/ job_output.status.type # "str"
     THEN Processed("success", "AttributeError", output, 0, "", EmptyStr, EmptyList, EmptyStr)
     ELSE Processed("success", "", output, 1,
                    IF job_output.status.toks = <<>> THEN ""
                    ELSE Upper(job_output.status.toks[1].t),
                    job_output.status_message, job_output.output_files, job_output.stacktrace)

Contains(line, word) == FindSep(line, <<Punct(word)>>) # 0

RECURSIVE ScanReversed(_, _, _, _)
\* _find_latest_raised_error_and_stacktrace_from_reversed_logs, lines 89-99: the for loop
\* from position k on
ScanReversed(reversed_logs, k, line_to_record, stacktrace_lines) ==
  IF k > Len(reversed_logs)
  THEN [line_to_record |-> line_to_record, stacktrace_lines |-> stacktrace_lines]
  ELSE LET line == reversed_logs[k]
       IN IF stacktrace_lines = <<>>
          THEN IF Contains(line, "Error:")
               THEN ScanReversed(reversed_logs, k + 1, line, <<line>>)
               ELSE ScanReversed(reversed_logs, k + 1, line_to_record, stacktrace_lines)
          ELSE IF ~Contains(line, "Traceback (most recent call last):")
          THEN ScanReversed(reversed_logs, k + 1, line_to_record, Append(stacktrace_lines, line))
          ELSE [line_to_record |-> line_to_record,
                stacktrace_lines |-> Append(stacktrace_lines, line)]

RECURSIVE EachWithNewline(_)
\* lines 101-103: stacktrace += line + "\n"
EachWithNewline(lines) ==
  IF lines = <<>> THEN <<>> ELSE lines[1] \o <<NL>> \o EachWithNewline(Tail(lines))

\* a scan that takes the first line of the log containing Error:, not the latest
_find_latest_raised_error_and_stacktrace_from_reversed_logs_earliest(reversed_logs) ==
  LET scan == ScanReversed(Reverse(reversed_logs), 1, reversed_logs[1], <<>>)
  IN [raised_error |-> scan.line_to_record,
      stacktrace |-> EachWithNewline(Reverse(scan.stacktrace_lines))]

\* _find_latest_raised_error_and_stacktrace_from_reversed_logs
_find_latest_raised_error_and_stacktrace_from_reversed_logs(reversed_logs) ==
  LET scan == ScanReversed(reversed_logs, 1, reversed_logs[1], <<>>)
  IN [raised_error |-> scan.line_to_record,
      stacktrace |-> EachWithNewline(Reverse(scan.stacktrace_lines))]

\* _find_latest_raised_error_and_stacktrace: the log (its last 50 lines; the logs of the
\* model are shorter) split and reversed
_find_latest_raised_error_and_stacktrace(logs) ==
  _find_latest_raised_error_and_stacktrace_from_reversed_logs(Reverse(PySplit(logs, <<NL>>)))

\* a process_job_failed that reports the job as UNSUCCESSFUL
process_job_failed_unsuccessful(logs, read) ==
  IF read = "raises"
  THEN Processed("failure", "ApiException", <<>>, 0, "", EmptyStr, EmptyList, EmptyStr)
  ELSE LET found == _find_latest_raised_error_and_stacktrace(logs)
       IN Processed("failure", "", <<>>, 1, "UNSUCCESSFUL", PyValue("str", found.raised_error),
                    EmptyList, PyValue("str", found.stacktrace))

\* process_job_failed
process_job_failed(logs, read) ==
  IF read = "raises"
  THEN Processed("failure", "ApiException", <<>>, 0, "", EmptyStr, EmptyList, EmptyStr)
  ELSE LET found == _find_latest_raised_error_and_stacktrace(logs)
       IN Processed("failure", "", <<>>, 1, "ERROR", PyValue("str", found.raised_error),
                    EmptyList, PyValue("str", found.stacktrace))

\* the main container has terminated; its log is what it is
LInit ==
  /\ l_pc = "terminated"
  /\ \/ log \in Logs /\ log_read = "ok"
     \/ log = <<>> /\ log_read = "raises"
  /\ l_out = NotProcessed

\* check_for_job_complete, exit code 0: process_job_success
ProcessJobSuccess ==
  /\ l_pc = "terminated"
  /\ l_out' = process_job_success(log, log_read)
  /\ l_pc' = IF l_out'.raised # "" THEN "raised" ELSE "reported"
  /\ UNCHANGED <<log, log_read>>

\* check_for_job_complete, another exit code: process_job_failed
ProcessJobFailed ==
  /\ l_pc = "terminated"
  /\ l_out' = process_job_failed(log, log_read)
  /\ l_pc' = IF l_out'.raised # "" THEN "raised" ELSE "reported"
  /\ UNCHANGED <<log, log_read>>

-----------------------------------------------------------------------------
(* The watcher sidecar: the environment spawn_job gives its container, the *)
(* constants the watcher reads from it, and the pod the watcher finds and  *)
(* reads.  Values of environment variables are strings.                    *)

DigitChars == <<"0", "1", "2", "3", "4", "5", "6", "7", "8", "9">>

RECURSIVE int_str(_)
\* str(n) of an int that is not negative
int_str(n) ==
  IF n < 10 THEN <<DigitChars[n + 1]>> ELSE int_str(n \div 10) \o <<DigitChars[(n % 10) + 1]>>

RECURSIVE py_int(_)
\* int(s) of a string of decimal digits
py_int(s) ==
  LET digit(c) == CHOOSE d \in 0..9 : DigitChars[d + 1] = c
  IN IF Len(s) = 1 THEN digit(s[1])
     ELSE 10 * py_int(SubSeq(s, 1, Len(s) - 1)) + digit(s[Len(s)])

\* os.environ.get(name, default)
environ_get(env, name, default) == IF name \in DOMAIN env THEN env[name] ELSE default

DefaultFiaApi == <<"fia-api-service.fia.svc.cluster.local:80">>

\* the variables of the job creator's environment that end up in the sidecar, each
\* unset or set
EnvironValues ==
  [FIA_API |-> {<<"fia-api.staging:8000">>},
   FIA_API_API_KEY |-> {<<"shh">>},
   MAX_TIME_TO_COMPLETE |-> {<<"6", "0">>, <<"4", "3", "2", "0", "0">>}]

CreatorEnvirons ==
  UNION {{e \in [names -> UNION {EnvironValues[n] : n \in names}] :
            \A n \in names : e[n] \in EnvironValues[n]} :
           names \in SUBSET {"FIA_API", "FIA_API_API_KEY", "MAX_TIME_TO_COMPLETE"}}

\* jobcreator/main.py, lines 41, 42 and 57: the constants handed to every spawn_job call
CreatorConstants(env) ==
  [FIA_API_HOST |-> environ_get(env, "FIA_API", DefaultFiaApi),
   FIA_API_API_KEY |-> environ_get(env, "FIA_API_API_KEY", <<>>),
   MAX_TIME_TO_COMPLETE |->
     py_int(environ_get(env, "MAX_TIME_TO_COMPLETE", int_str(60 * 60 * 6)))]

NoArgs ==
  [job_name |-> <<>>, fia_api_host |-> <<>>, fia_api_api_key |-> <<>>,
   max_time_to_complete_job |-> 0]

\* the arguments of spawn_job that reach the sidecar
SpawnArgs(name, constants) ==
  [job_name |-> name, fia_api_host |-> constants.FIA_API_HOST,
   fia_api_api_key |-> constants.FIA_API_API_KEY,
   max_time_to_complete_job |-> constants.MAX_TIME_TO_COMPLETE]

\* spawn_job, lines 402-413: env of the job-watcher container
watcher_container_env(args) ==
  [FIA_API_HOST |-> args.fia_api_host,
   FIA_API_API_KEY |-> args.fia_api_api_key,
   MAX_TIME_TO_COMPLETE_JOB |-> int_str(args.max_time_to_complete_job),
   CONTAINER_NAME |-> args.job_name,
   JOB_NAME |-> args.job_name,
   POD_NAME |-> args.job_name]

NoEnv == [n \in {"<unset>"} |-> <<>>]

NoSettings ==
  [FIA_API_HOST |-> <<>>, FIA_API_API_KEY |-> <<>>, MAX_TIME_TO_COMPLETE |-> 0,
   CONTAINER_NAME |-> <<>>, JOB_NAME |-> <<>>, PARTIAL_POD_NAME |-> <<>>]

\* job_watcher.py, lines 21-22, and jobwatcher/main.py, lines 13-18: the constants the
\* watcher reads from its environment when its modules are imported
WatcherConstants(env) ==
  [FIA_API_HOST |-> environ_get(env, "FIA_API", DefaultFiaApi),
   FIA_API_API_KEY |-> environ_get(env, "FIA_API_API_KEY", <<>>),
   MAX_TIME_TO_COMPLETE |->
     IF "MAX_TIME_TO_COMPLETE_JOB" \in DOMAIN env
     THEN py_int(env["MAX_TIME_TO_COMPLETE_JOB"]) ELSE 60 * 60 * 6,
   CONTAINER_NAME |-> environ_get(env, "CONTAINER_NAME", <<>>),
   JOB_NAME |-> environ_get(env, "JOB_NAME", <<>>),
   PARTIAL_POD_NAME |-> environ_get(env, "POD_NAME", <<>>)]

\* the job names of the sidecars: the second contains the first
SidecarJobNames == {<<"r", "u", "n", "-", "a">>, <<"r", "u", "n", "-", "a", "b">>}

\* pods of the namespace: the cluster names the pod of a job after the job
PodNames ==
  {<<"r", "u", "n", "-", "a", "-", "x">>, <<"r", "u", "n", "-", "a", "b", "-", "y">>,
   <<"r", "u", "n", "-", "c", "-", "z">>}

\* the lists list_namespaced_pod may return: any pods, in any order
PodLists ==
  UNION {{l \in [1..n -> PodNames] : Cardinality({l[i] : i \in 1..n}) = n} :
           n \in 0..Cardinality(PodNames)}

\* _find_pod_from_partial_name: the first pod of the list whose name contains the partial
\* name, None if there is none
_find_pod_from_partial_name(partial_pod_name, items) ==
  LET hits == {i \in 1..Len(items) : partial_pod_name = <<>> \/ FindSep(items[i], partial_pod_name) # 0}
  IN IF hits = {} THEN NoneVal
     ELSE items[CHOOSE i \in hits : \A j \in hits : i <= j]

\* a refresh that looks the pod up by the partial name again
pod_to_read_by_partial_name(name, partial_pod_name, items) ==
  _find_pod_from_partial_name(partial_pod_name, items)

\* update_current_container_info without partial_pod_name, line 173:
\* read_namespaced_pod(name=self.pod_name), None when the cluster has no such pod
pod_to_read(name, partial_pod_name, items) ==
  IF \E i \in 1..Len(items) : items[i] = name THEN name ELSE NoneVal

\* JobWatcher.pod: the pod and the API call it came from
PodRead(name, call) == [name |-> name, call |-> call]

NoPodRead == PodRead(NoneVal, "")

SInit ==
  /\ s_pc = "creator"
  /\ environ \in CreatorEnvirons
  /\ spawn_args = NoArgs
  /\ sidecar_env = NoEnv
  /\ settings = NoSettings
  /\ pods \in PodLists
  /\ pod_name = NoneVal
  /\ pod_read = NoPodRead

\* the creator submits a job: spawn_job builds the env of the job-watcher container
SpawnSidecar ==
  /\ s_pc = "creator"
  /\ \E name \in SidecarJobNames :
       spawn_args' = SpawnArgs(name, CreatorConstants(environ))
  /\ sidecar_env' = watcher_container_env(spawn_args')
  /\ s_pc' = "spawned"
  /\ UNCHANGED <<environ, settings, pods, pod_name, pod_read>>

\* the sidecar starts: jobwatcher.main and jobwatcher.job_watcher are imported
ImportWatcher ==
  /\ s_pc = "spawned"
  /\ settings' = WatcherConstants(sidecar_env)
  /\ s_pc' = "imported"
  /\ UNCHANGED <<environ, spawn_args, sidecar_env, pods, pod_name, pod_read>>

\* jobwatcher/main.py, lines 32-38: main() passes db_updater=, a keyword that
\* JobWatcher.__init__ does not take
Main ==
  /\ s_pc = "imported"
  /\ s_pc' = "TypeError"
  /\ UNCHANGED <<environ, spawn_args, sidecar_env, settings, pods, pod_name, pod_read>>

\* JobWatcher(job_name, partial_pod_name, container_name, max_time_to_complete) with the
\* constants of main.py: __init__ and its update_current_container_info(partial_pod_name)
Construct ==
  /\ s_pc = "imported"
  /\ \E job_read \in BOOLEAN :
       IF ~job_read
       THEN /\ s_pc' = "ApiException"
            /\ UNCHANGED <<pod_name, pod_read>>
       ELSE LET pod == _find_pod_from_partial_name(settings.PARTIAL_POD_NAME, pods)
            IN IF pod = NoneVal
               THEN /\ s_pc' = "ValueError"
                    /\ UNCHANGED <<pod_name, pod_read>>
               ELSE /\ pod_name' = pod
                    /\ pod_read' = PodRead(pod, "list_namespaced_pod")
                    /\ s_pc' = "watching"
  /\ UNCHANGED <<environ, spawn_args, sidecar_env, settings, pods>>

\* check_for_changes -> update_current_container_info(): the job and then the pod are
\* read again
RefreshPod ==
  /\ s_pc = "watching"
  /\ \E job_read \in BOOLEAN :
       LET pod == pod_to_read(pod_name, settings.PARTIAL_POD_NAME, pods)
       IN IF ~job_read \/ pod = NoneVal
          THEN /\ s_pc' = "ApiException"
               /\ UNCHANGED pod_read
          ELSE /\ pod_read' = PodRead(pod, "read_namespaced_pod")
               /\ UNCHANGED s_pc
  /\ UNCHANGED <<environ, spawn_args, sidecar_env, settings, pods, pod_name>>

\* the cluster: pods of the namespace come and go while the watcher runs
PodsChange ==
  /\ s_pc = "watching"
  /\ pods' \in PodLists \ {pods}
  /\ UNCHANGED <<s_pc, environ, spawn_args, sidecar_env, settings, pod_name, pod_read>>

-----------------------------------------------------------------------------
(* Two jobs side by side: for each, the creations of spawn_job, the        *)
(* annotations of the submitted job, and the cleanup of the job's watcher.  *)
(* The steps of the two jobs interleave freely.                             *)

PairJobs == {1, 2}

\* job names of a rerun of MAR1 and of a simple job of user 7, each with two hex values
\* that differ in one digit
PairJobNames ==
  {rerun_job_name(Message("rerun", TRUE, NoneVal, NoneVal, TRUE, <<"M", "A", "R", "1">>,
                          "mari"), h) :
     h \in {[i \in 1..32 |-> "a"], [i \in 1..32 |-> IF i = 1 THEN "b" ELSE "a"]}}
  \cup {simple_job_name(Message("simple", TRUE, <<"7">>, NoneVal, TRUE, <<>>, ""), h) :
          h \in {[i \in 1..32 |-> "a"], [i \in 1..32 |-> IF i = 1 THEN "b" ELSE "a"]}}

\* what spawn_job holds for one job, and the annotations of the job once submitted
PairJob(name, steps, pvs, pvcs, annotations) ==
  [job_name |-> name, plan |-> steps, pv_names |-> pvs, pvc_names |-> pvcs,
   annotations |-> annotations]

NoAnnotations == [pvs |-> <<>>, pvcs |-> <<>>]

PInit ==
  /\ p_pc = [i \in PairJobs |-> "spawn"]
  /\ \E dev \in BOOLEAN :
       \E names \in [PairJobs -> PairJobNames] :
         \E special \in [PairJobs -> {<<>>, <<"imat">>}] :
           /\ names[1] # names[2]
           /\ p_jobs = [i \in PairJobs |->
                          PairJob(names[i], SpawnPlan(dev, special[i]), <<>>, <<>>,
                                  NoAnnotations)]
  /\ p_todo = [i \in PairJobs |-> <<>>]
  /\ p_calls = [i \in PairJobs |-> <<>>]

\* spawn_job of job i: the next PV or PVC creation
PairCreate(i) ==
  /\ p_pc[i] = "spawn"
  /\ p_jobs[i].plan # <<>>
  /\ LET j == p_jobs[i]
         step == Head(j.plan)
     IN \E ok \in BOOLEAN :
          /\ p_calls' = [p_calls EXCEPT
                           ![i] = Append(@, Call(step.op, j.job_name \o step.suffix,
                                                 IF ok THEN 1 ELSE 0, ""))]
          /\ IF ok
             THEN /\ p_jobs' = [p_jobs EXCEPT
                                  ![i] = PairJob(j.job_name, Tail(j.plan),
                                                 j.pv_names \o Named(j.job_name, step.pvs),
                                                 j.pvc_names \o Named(j.job_name, step.pvcs),
                                                 j.annotations)]
                  /\ UNCHANGED p_pc
             ELSE /\ p_pc' = [p_pc EXCEPT ![i] = "abandoned"]
                  /\ UNCHANGED p_jobs
  /\ UNCHANGED p_todo

\* spawn_job of job i: create_namespaced_job with the annotations pvs and pvcs
PairSubmit(i) ==
  /\ p_pc[i] = "spawn"
  /\ p_jobs[i].plan = <<>>
  /\ LET j == p_jobs[i]
         metadata == JobMetadata(j.job_name, j.pv_names, j.pvc_names)
     IN p_jobs' = [p_jobs EXCEPT
                     ![i] = PairJob(j.job_name, j.plan, j.pv_names, j.pvc_names,
                                    [pvs |-> metadata.pvs, pvcs |-> metadata.pvcs])]
  /\ p_calls' = [p_calls EXCEPT ![i] = Append(@, Call("create_job", p_jobs[i].job_name, 1, ""))]
  /\ p_pc' = [p_pc EXCEPT ![i] = "running"]
  /\ UNCHANGED p_todo

\* cleanup_job of the watcher of job i: enter the first loop
PairCleanupStart(i) ==
  /\ p_pc[i] = "running"
  /\ p_todo' = [p_todo EXCEPT ![i] = ToDelete(FirstCleanup, p_jobs[i].annotations)]
  /\ p_pc' = [p_pc EXCEPT ![i] = FirstCleanup]
  /\ UNCHANGED <<p_jobs, p_calls>>

\* clean_up_pvs_for_job or clean_up_pvcs_for_job of the watcher of job i: one pass of the
\* for loop
PairDelete(i) ==
  /\ p_pc[i] \in {"pvs", "pvcs"}
  /\ p_todo[i] # <<>>
  /\ LET entry == Head(p_todo[i])
         deleted == IF p_pc[i] = "pvs" THEN pv_is_deleted(entry) ELSE pvc_is_deleted(entry)
         op == IF p_pc[i] = "pvs" THEN "delete_pv" ELSE "delete_pvc"
         name == IF p_pc[i] = "pvs" THEN pv_name(entry) ELSE pvc_deleted_name(entry)
     IN IF deleted
        THEN \E ok \in BOOLEAN :
               /\ p_calls' = [p_calls EXCEPT
                                ![i] = Append(@, Call(op, name, IF ok THEN 1 ELSE 0, ""))]
               /\ IF ok
                  THEN /\ p_todo' = [p_todo EXCEPT ![i] = Tail(@)]
                       /\ UNCHANGED p_pc
                  ELSE /\ p_pc' = [p_pc EXCEPT ![i] = "raised"]
                       /\ UNCHANGED p_todo
        ELSE /\ p_todo' = [p_todo EXCEPT ![i] = Tail(@)]
             /\ UNCHANGED <<p_pc, p_calls>>
  /\ UNCHANGED p_jobs

\* cleanup_job of the watcher of job i: the first loop is over, enter the second
PairCleanupNext(i) ==
  /\ p_pc[i] = FirstCleanup
  /\ p_todo[i] = <<>>
  /\ p_todo' = [p_todo EXCEPT ![i] = ToDelete(OtherKind(FirstCleanup), p_jobs[i].annotations)]
  /\ p_pc' = [p_pc EXCEPT ![i] = OtherKind(FirstCleanup)]
  /\ UNCHANGED <<p_jobs, p_calls>>

\* cleanup_job of the watcher of job i has returned
PairCleanupDone(i) ==
  /\ p_pc[i] = OtherKind(FirstCleanup)
  /\ p_todo[i] = <<>>
  /\ p_pc' = [p_pc EXCEPT ![i] = "done"]
  /\ UNCHANGED <<p_jobs, p_todo, p_calls>>

-----------------------------------------------------------------------------
(* Specifications.                                                         *)

\* no pair of jobs, while another part of the program is checked
PIdle ==
  /\ p_pc = [i \in PairJobs |-> "off"]
  /\ p_jobs = [i \in PairJobs |-> PairJob(<<>>, <<>>, <<>>, <<>>, NoAnnotations)]
  /\ p_todo = [i \in PairJobs |-> <<>>]
  /\ p_calls = [i \in PairJobs |-> <<>>]

\* no sidecar, while another part of the program is checked
SIdle ==
  /\ s_pc = "off"
  /\ environ = NoEnv
  /\ spawn_args = NoArgs
  /\ sidecar_env = NoEnv
  /\ settings = NoSettings
  /\ pods = <<>>
  /\ pod_name = NoneVal
  /\ pod_read = NoPodRead

\* no log is processed, while another part of the program is checked
LIdle ==
  /\ l_pc = "off"
  /\ log = <<>>
  /\ log_read = ""
  /\ l_out = NotProcessed

\* no image lookup, while the watcher or the consumer is checked
IIdle ==
  /\ i_pc = "off"
  /\ image = <<>>
  /\ registry = NoRegistry
  /\ resolved = NoOutcome

\* the creator, while the watcher alone is checked
CIdle ==
  /\ c_pc = "off"
  /\ dev_mode = FALSE
  /\ delivered = <<>>
  /\ msg = NoMessage
  /\ hex = <<>>
  /\ responses = <<>>
  /\ acquired = NoResult
  /\ job_type = ""
  /\ job_name = <<>>
  /\ special_pvs = <<>>
  /\ plan = <<>>
  /\ pv_names = <<>>
  /\ pvc_names = <<>>
  /\ retry_attempt = 0
  /\ submitted = NoJob
  /\ c_error = ""
  /\ c_calls = <<>>

\* the watcher, while the creator alone is checked
WIdle ==
  /\ w_pc = "off"
  /\ done_watching = FALSE
  /\ max_time_to_complete = 60 * 60 * 6
  /\ job = [pvs |-> <<>>, pvcs |-> <<>>]
  /\ pod_age = 0
  /\ container = NotTerminated
  /\ log_tail = "unread"
  /\ outcome = "none"
  /\ report = NoReport
  /\ retry_attempts = 0
  /\ todo = <<>>
  /\ w_error = ""
  /\ calls = <<>>

Init == WInit /\ CIdle /\ IIdle /\ LIdle /\ SIdle /\ PIdle

Next ==
  \/ TickRaises /\ UNCHANGED not_wvars
  \/ TickSuccess /\ UNCHANGED not_wvars
  \/ TickFailure /\ UNCHANGED not_wvars
  \/ TickProcessRaises /\ UNCHANGED not_wvars
  \/ TickStalled /\ UNCHANGED not_wvars
  \/ TickStillBusy /\ UNCHANGED not_wvars
  \/ TickStallCheckRaises /\ UNCHANGED not_wvars
  \/ UpdateJobStatusAttempt /\ UNCHANGED not_wvars
  \/ UpdateJobStatusRaises /\ UNCHANGED not_wvars
  \/ CleanupStart /\ UNCHANGED not_wvars
  \/ DeletePv /\ UNCHANGED not_wvars
  \/ DeletePvc /\ UNCHANGED not_wvars
  \/ CleanupNext /\ UNCHANGED not_wvars
  \/ CleanupDone /\ UNCHANGED not_wvars
  \/ WatchReturns /\ UNCHANGED not_wvars

\* one job watcher, from its construction to the end of watch()
Spec == Init /\ [][Next]_vars

\* the same watcher for one job of the creator (a production job: three volumes, three
\* claims), in a run where the loop of watch() keeps being scheduled and time passes
LiveInit ==
  /\ Init
  /\ job.pvs = PyStrList(<<<<"a">>, <<"b", "1">>>>)
  /\ job.pvcs = PyStrList(<<<<"b", "1">>, <<"a">>>>)

SpecLive == LiveInit /\ [][Next]_vars /\ WF_vars(Next)

CreatorInit == CInit /\ WIdle /\ IIdle /\ LIdle /\ SIdle /\ PIdle

CreatorNext ==
  \/ ConsumeUndecodable /\ UNCHANGED not_cvars
  \/ ConsumeNotJson /\ UNCHANGED not_cvars
  \/ ConsumeNotObject /\ UNCHANGED not_cvars
  \/ ReceiveUnrecognised /\ UNCHANGED not_cvars
  \/ Acknowledge /\ UNCHANGED not_cvars
  \/ SkipAcknowledge /\ UNCHANGED not_cvars
  \/ ReceiveSimple /\ UNCHANGED not_cvars
  \/ ReceiveRerun /\ UNCHANGED not_cvars
  \/ ReceiveAutoreduction /\ UNCHANGED not_cvars
  \/ PostAutoreductionAttempt /\ UNCHANGED not_cvars
  \/ PostAutoreductionRaises /\ UNCHANGED not_cvars
  \/ SpawnCreate /\ UNCHANGED not_cvars
  \/ SubmitJob /\ UNCHANGED not_cvars

\* one job creator consuming the messages of its queue
SpecCreator == CreatorInit /\ [][CreatorNext]_vars

ImageInit == IInit /\ WIdle /\ CIdle /\ LIdle /\ SIdle /\ PIdle

ImageNext == FindSha256OfImage /\ UNCHANGED not_ivars

\* one call of find_sha256_of_image, for every reference and every registry behaviour
SpecImage == ImageInit /\ [][ImageNext]_vars

LogsInit == LInit /\ WIdle /\ CIdle /\ IIdle /\ SIdle /\ PIdle

LogsNext ==
  \/ ProcessJobSuccess /\ UNCHANGED not_lvars
  \/ ProcessJobFailed /\ UNCHANGED not_lvars

\* the report of one terminated container, for every log it may have written
SpecLogs == LogsInit /\ [][LogsNext]_vars

SidecarInit == SInit /\ WIdle /\ CIdle /\ IIdle /\ LIdle /\ PIdle

SidecarNext ==
  \/ SpawnSidecar /\ UNCHANGED not_svars
  \/ ImportWatcher /\ UNCHANGED not_svars
  \/ Main /\ UNCHANGED not_svars
  \/ Construct /\ UNCHANGED not_svars
  \/ RefreshPod /\ UNCHANGED not_svars
  \/ PodsChange /\ UNCHANGED not_svars

\* the sidecar of one job, from the creator's environment to the watcher's pod reads
SpecSidecar == SidecarInit /\ [][SidecarNext]_vars

PairInit == PInit /\ WIdle /\ CIdle /\ IIdle /\ LIdle /\ SIdle

PairNext ==
  \/ (\E i \in PairJobs : PairCreate(i)) /\ UNCHANGED not_pvars
  \/ (\E i \in PairJobs : PairSubmit(i)) /\ UNCHANGED not_pvars
  \/ (\E i \in PairJobs : PairCleanupStart(i)) /\ UNCHANGED not_pvars
  \/ (\E i \in PairJobs : PairDelete(i)) /\ UNCHANGED not_pvars
  \/ (\E i \in PairJobs : PairCleanupNext(i)) /\ UNCHANGED not_pvars
  \/ (\E i \in PairJobs : PairCleanupDone(i)) /\ UNCHANGED not_pvars

\* two jobs of different names, their creations and their watchers' cleanups interleaved
SpecPair == PairInit /\ [][PairNext]_vars

-----------------------------------------------------------------------------
(* Properties of the job watcher.                                          *)

IsDelete(c) == c.op \in {"delete_pv", "delete_pvc"}

PatchIdx == {i \in DOMAIN calls : calls[i].op = "PATCH"}

DeleteIdx == {i \in DOMAIN calls : IsDelete(calls[i])}

\* the names a list-valued annotation lists: the names of the list it is the str() of
ListedNames(ann) ==
  {x \in WatchedNames : \E l \in AnnotationLists : PyStrList(l) = ann /\ x \in Range(l)}

\* the names for which a delete call of the kind was issued
Attempted(op) == {calls[i].name : i \in {k \in DOMAIN calls : calls[k].op = op}}

\* _update_job_status has ended: a 200 was received, or max_attempts + 1 responses were not
ReportFinished ==
  \/ \E i \in PatchIdx : calls[i].n = HTTP_OK
  \/ Cardinality({i \in PatchIdx : calls[i].n # HTTP_OK /\ calls[i].n # NoResponse}) = 4

\* every response received so far was a non-200, and there were four of them
Exhausted ==
  /\ \A i \in PatchIdx : calls[i].n = HTTP_INTERNAL_SERVER_ERROR
  /\ Cardinality(PatchIdx) = 4

\* C1: when the main container was seen terminated (exit code 0 or not), every PATCH
\* attempt and retry sleep of the status report precedes every PV and PVC deletion,
\* and no deletion is issued before the report has ended (a 200, or four non-200s).
C1_ReportBeforeCleanup ==
  outcome \in {"success", "failure"} =>
    /\ \A i \in DeleteIdx : \A k \in DOMAIN calls :
         calls[k].op \in {"PATCH", "sleep"} => k < i
    /\ (DeleteIdx # {} \/ w_pc \in {"cleanup", "pvs", "pvcs", "returned"}) => ReportFinished

\* C1 witness: a failed container, a report that needed a retry, and a deletion issued
C1_Witness ==
  /\ outcome = "failure"
  /\ Cardinality(PatchIdx) = 2
  /\ DeleteIdx # {}

\* C2: when a tick finds the container not terminated and the pod stalled, a PATCH
\* with state ERROR has been sent by the time cleanup_job is entered, before any PV or
\* PVC of the job is deleted.
C2_StallReportsErrorThenCleans ==
  (outcome = "stall" /\ w_pc \in {"cleanup", "pvs", "pvcs", "returned"}) =>
    \E k \in PatchIdx :
      /\ calls[k].state = "ERROR"
      /\ \A i \in DeleteIdx : k < i

\* C3: when the watcher has finished after a terminal outcome with every delete call
\* succeeding, the PV names deleted are exactly the names the pvs annotation lists and
\* the PVC names deleted exactly those the pvcs annotation lists.
C3_CleanupFaithful ==
  (w_pc = "returned" /\ outcome \in {"success", "failure", "stall"}) =>
    /\ Attempted("delete_pv") = ListedNames(job.pvs)
    /\ Attempted("delete_pvc") = ListedNames(job.pvcs)

\* C5: every PVC deletion is issued before any PV deletion (stated for the deletions
\* of listed names, so that no deletion of an empty name is needed to refute it).
C5_ClaimsBeforeVolumes ==
  \A i, k \in DOMAIN calls :
    (/\ calls[i].op = "delete_pv" /\ calls[i].name \in WatchedNames
     /\ calls[k].op = "delete_pvc" /\ calls[k].name \in WatchedNames) => k < i

\* C6: no delete call is issued with the empty string or None as the name.
C6_NoEmptyOrNoneDelete ==
  \A i \in DeleteIdx : calls[i].name # <<>> /\ calls[i].name # NoneStr

\* C7: when the delete call of a listed PV or PVC has failed and the watcher has
\* stopped, it has stopped by returning from watch(), and a delete was attempted for
\* every listed PV and PVC.
C7_DeleteFailureDoesNotAbort ==
  ((\E i \in DeleteIdx : calls[i].n = 0 /\ calls[i].name \in WatchedNames)
     /\ w_pc \in {"returned", "raised"}) =>
    /\ w_pc = "returned"
    /\ ListedNames(job.pvs) \subseteq Attempted("delete_pv")
    /\ ListedNames(job.pvcs) \subseteq Attempted("delete_pvc")

\* C8: _update_job_status sends at most 4 PATCH requests, none after a 200 response,
\* and exactly 4 when it has ended with every response a non-200.
C8_AtMostFourPatches ==
  /\ Cardinality(PatchIdx) <= 4
  /\ \A i, k \in PatchIdx : i < k => calls[i].n # HTTP_OK
  /\ (/\ PatchIdx # {}
      /\ w_pc # "patch"
      /\ \A i \in PatchIdx : calls[i].n = HTTP_INTERNAL_SERVER_ERROR)
     => Cardinality(PatchIdx) = 4

\* C8 witness: four PATCH requests, all answered with a non-200, and the call over
C8_Witness ==
  /\ Exhausted
  /\ w_pc = "cleanup"

C10_SleepsOnlyBetweenAttempts ==
  \A i \in DOMAIN calls :
    calls[i].op = "sleep" =>
      /\ calls[i].n = 3 + Cardinality({k \in PatchIdx : k < i})
      /\ w_pc # "patch" => \E k \in PatchIdx : k > i

CleanupIdx == {i \in 1..Len(calls) : calls[i].op = "cleanup"}

\* a tick has found the container not terminated and the stall check has run to its end
StallChecked == ~container.terminated /\ pod_age > 0 /\ w_error = ""

\* C26: a tick takes one branch: success processing exactly for a container terminated
\* with exit code 0, failure processing exactly for one terminated with another code, and
\* the stall check (with its log read) only for a container that is not terminated,
\* whatever the pod's age.
C26_OneBranchPerTick ==
  /\ outcome = "success" <=> (container.terminated /\ container.exit_code = 0)
  /\ outcome = "failure" <=> (container.terminated /\ container.exit_code # 0)
  /\ outcome = "stall" => ~container.terminated
  /\ container.terminated => log_tail = "unread"
  /\ (outcome = "success" /\ w_pc # "raised") => \E p \in Payloads : report = SuccessReport(p)
  /\ (outcome = "failure" /\ w_pc # "raised") => report = FailedReport
  /\ outcome \in {"none", "stall"} => report = NoReport

\* C26 witness: a pod older than max_time_to_complete whose container exited with 0 was
\* processed as a success, and the watcher has finished
C26_Witness ==
  /\ container.terminated
  /\ container.exit_code = 0
  /\ pod_age > max_time_to_complete
  /\ outcome = "success"
  /\ PatchIdx # {}
  /\ w_pc = "returned"

\* C27: the stall check flags the pod exactly when (its age is over 30 minutes and the
\* 1-line log tail is empty) or its age is over max_time_to_complete; for a pod aged at
\* most 30 minutes the log is not read.
C27_StallCriterion ==
  StallChecked =>
    /\ outcome = "stall" <=>
         \/ pod_age > 60 * 30 /\ log_tail = "empty"
         \/ pod_age > max_time_to_complete
    /\ pod_age <= 60 * 30 => log_tail = "unread"
    /\ pod_age > 60 * 30 => log_tail \in {"empty", "lines"}

\* C27 witness: a pod aged at most 30 minutes but older than max_time_to_complete was
\* flagged without a log read
C27_Witness ==
  /\ StallChecked
  /\ outcome = "stall"
  /\ pod_age <= 60 * 30
  /\ pod_age > max_time_to_complete
  /\ log_tail = "unread"

Ended == w_pc \in {"returned", "raised"}

C29_OneCleanupOneReport ==
  /\ [](/\ Cardinality(CleanupIdx) <= 1
        /\ Cardinality(PatchIdx) <= 4
        /\ \A i, k \in PatchIdx : calls[i].state = calls[k].state
        /\ \A i, k \in PatchIdx : (i < k) => calls[i].n # 200
        /\ done_watching =>
             /\ Cardinality(CleanupIdx) = 1
             /\ w_pc \in {"watch", "returned"})
  /\ [][done_watching =>
          /\ calls' = calls
          /\ pod_age' = pod_age
          /\ container' = container
          /\ log_tail' = log_tail
          /\ done_watching']_vars

\* C29 witness: the watcher has reported once, cleaned up once and returned
C29_Witness ==
  /\ done_watching
  /\ w_pc = "returned"
  /\ Cardinality(CleanupIdx) = 1
  /\ Cardinality(PatchIdx) = 1
  /\ DeleteIdx # {}

\* C30: an observation error during a tick (a job or pod read that fails, the main
\* container's status missing, the log read of the stall check failing) does not leave
\* watch(): the watcher goes on to its next tick.
C30_ObservationErrorsSkipTick ==
  ~(/\ w_pc = "raised"
    /\ outcome = "none"
    /\ w_error \in {"read_job", "read_pod", "container_not_found", "read_log"})

-----------------------------------------------------------------------------
(* Properties of the job creator.                                          *)

\* the names of the resources the cluster created for the calls of one kind, in order
CreatedNames(op) ==
  LET made == SelectSeq(c_calls, LAMBDA c : c.op = op /\ c.n = 1)
  IN [i \in 1..Len(made) |-> made[i].name]

\* C4: the V1Job handed to create_namespaced_job carries in `pvs` the str() of the list
\* of exactly the PVs this spawn_job call created and in `pvcs` that of exactly the PVCs
\* it created, with dev_mode on or off and with or without the imat share.
C4_AnnotationsListCreated ==
  submitted # NoJob =>
    /\ submitted.pvs = PyStrList(CreatedNames("create_pv"))
    /\ submitted.pvcs = PyStrList(CreatedNames("create_pvc"))

\* C4 witness: a production job for imat is submitted: four PVs and four PVCs created
C4_Witness ==
  /\ submitted # NoJob
  /\ ~dev_mode
  /\ "imat" \in Range(special_pvs)
  /\ Len(CreatedNames("create_pv")) = 4
  /\ Len(CreatedNames("create_pvc")) = 4

\* a delivered message is being handled: its handler has not yet returned to the loop
Handling == c_pc \notin {"off", "idle"} /\ delivered # <<>>

\* the body of the message being handled
Body == delivered[Len(delivered)].kind

PostIdx == {i \in 1..Len(c_calls) : c_calls[i].op = "POST"}

CreatedIdx == {i \in 1..Len(responses) : responses[i].status_code = HTTP_CREATED}

\* no PV, PVC or job was asked of the cluster for the message being handled
NothingCreated ==
  /\ \A i \in 1..Len(c_calls) : c_calls[i].op \notin {"create_pv", "create_pvc", "create_job"}
  /\ submitted = NoJob

C12_ExhaustionAbandonsMessage ==
  (/\ Handling
   /\ job_type = "autoreduction"
   /\ responses # <<>>
   /\ CreatedIdx = {}
   /\ c_pc # "post"
   /\ c_error # "post") =>
    /\ Len(responses) = 4
    /\ Cardinality(PostIdx) = 4
    /\ c_error = "RuntimeError"
    /\ c_pc = "handled"
    /\ NothingCreated

\* C12 witness: four requests, all answered 500, and the handler has logged RuntimeError
C12_Witness ==
  /\ job_type = "autoreduction"
  /\ Len(responses) = 4
  /\ CreatedIdx = {}
  /\ c_error = "RuntimeError"
  /\ c_pc = "handled"

\* C13: while a decoded mapping is handled no exception leaves process_message: whatever
\* failed (a missing key, the script acquisition, a PV or PVC creation, the job
\* submission), the handler caught it, logged it and returned.
C13_HandlersCatchEverything ==
  (Handling /\ Body = "object") =>
    /\ c_pc # "escaped"
    /\ c_error # "" => c_pc = "handled"

\* C13 witness: the job submission failed and the handler returned with the error logged
C13_Witness ==
  /\ Handling
  /\ Body = "object"
  /\ c_pc = "handled"
  /\ c_error = "create_job"
  /\ submitted # NoJob

\* C14: every delivered message is acknowledged exactly once and only after its handling
\* has finished: never twice, not while it is handled, and once the consumer is back in
\* its loop every delivered message has its acknowledgement.
C14_EveryMessageAcknowledgedOnce ==
  /\ \A i \in 1..Len(delivered) : delivered[i].acks <= 1
  /\ Handling => delivered[Len(delivered)].acks = 0
  /\ c_pc = "idle" => \A i \in 1..Len(delivered) : delivered[i].acks = 1

\* C15: a body that is not valid JSON never reaches the message callback and creates
\* nothing; the decode error is logged inside _message_handler, which returns normally,
\* and the consumer goes on to its next cycle.
C15_MalformedJsonSkipped ==
  /\ (Handling /\ Body = "not_json") =>
       /\ c_pc = "handled"
       /\ c_error = "JSONDecodeError"
       /\ job_type = ""
       /\ c_calls = <<>>
       /\ NothingCreated
  /\ \A i \in 1..Len(delivered) :
       (delivered[i].kind = "not_json" /\ i < Len(delivered)) => delivered[i].acks = 1

\* C15 witness: after a body that was not JSON the consumer is handling the next message
C15_Witness ==
  /\ Len(delivered) = 2
  /\ delivered[1].kind = "not_json"
  /\ delivered[2].kind = "object"
  /\ c_pc = "spawn"

\* C16: process_message runs the one path its job_type names (an absent job_type means
\* autoreduction), and for any other job_type it makes no HTTP request and creates no
\* PV, PVC or job.
C16_OnePathByJobType ==
  (Handling /\ Body = "object") =>
    /\ msg.job_type = "simple" => job_type = "simple"
    /\ msg.job_type = "rerun" => job_type = "rerun"
    /\ msg.job_type \in {"autoreduction", "<absent>"} => job_type = "autoreduction"
    /\ msg.job_type \notin {"simple", "rerun", "autoreduction", "<absent>"} =>
         /\ job_type = "none"
         /\ c_calls = <<>>
         /\ NothingCreated
    /\ PostIdx # {} => job_type = "autoreduction"

\* C16 witness: a message whose job_type no case names has been dropped
C16_Witness ==
  /\ Handling
  /\ msg.job_type = "Simple"
  /\ job_type = "none"
  /\ c_pc = "handled"

\* C17: a simple message with both user_number and experiment_number set is rejected:
\* no PV, PVC or job is created for it and its handling ends with a ValueError logged.
C17_BothOwnersRejected ==
  (/\ Handling
   /\ msg.job_type = "simple"
   /\ msg.complete
   /\ msg.user_number # NoneVal
   /\ msg.experiment_number # NoneVal) =>
    /\ NothingCreated
    /\ c_pc = "handled" => c_error = "ValueError"

\* C18: a simple message with neither user_number nor experiment_number set is rejected:
\* no output directory, PV, PVC or job is created for it and its handling ends with a
\* ValueError logged.
C18_NoOwnerRejected ==
  (/\ Handling
   /\ msg.job_type = "simple"
   /\ msg.complete
   /\ msg.user_number = NoneVal
   /\ msg.experiment_number = NoneVal) =>
    /\ NothingCreated
    /\ \A i \in 1..Len(c_calls) : c_calls[i].op # "mkdir"
    /\ c_pc = "handled" => c_error = "ValueError"

\* C19: on every path the job_name handed to spawn_job has at most 50 characters.
C19_JobNameAtMost50 ==
  (Handling /\ c_pc = "spawn") => Len(job_name) <= 50

\* the job_name the path of the message being handled gives it when uuid4 draws h
NameWith(h) ==
  CASE job_type = "simple" -> simple_job_name(msg, h)
    [] job_type = "rerun" -> rerun_job_name(msg, h)
    [] OTHER -> autoreduction_job_name(msg, h)

\* a simple message names exactly one owner; the other paths have none to name
OneOwner == job_type = "simple" => (msg.user_number = NoneVal) # (msg.experiment_number = NoneVal)

\* C20: on every path, a message with the same content for which uuid4 draws another hex
\* value gets another job_name than the message being handled.  Stated for the simple
\* messages that name exactly one owner, and for every rerun and autoreduction message.
C20_OtherHexOtherName ==
  (Handling /\ job_name # <<>> /\ OneOwner) =>
    \A h \in Hexes : h # hex => NameWith(h) # job_name

\* the exceptions of the PV and PVC creations of spawn_job
CreateErrors == {"create_pv", "create_pvc"}

\* C21: when a PV or PVC creation of spawn_job fails, create_namespaced_job is not called
\* for the message, no delete call is made for what was already created, the failed
\* creation is the last cluster call, and the next step of the consumer is back in its
\* consume loop, ready for the next message.
C21_FailedCreationAbandonsJob ==
  /\ [](c_error \in CreateErrors =>
         /\ c_pc = "handled"
         /\ submitted = NoJob
         /\ \A i \in 1..Len(c_calls) :
              c_calls[i].op \notin {"create_job", "delete_pv", "delete_pvc", "delete_job"}
         /\ c_calls[Len(c_calls)].op = c_error
         /\ c_calls[Len(c_calls)].n = 0)
  /\ [][(c_error \in CreateErrors) => (c_pc' = "idle")]_vars

\* C21 witness: the extras PVC could not be created after the archive PV, the archive PVC
\* and the extras PV had been; the handler has returned
C21_Witness ==
  /\ c_error = "create_pvc"
  /\ c_pc = "handled"
  /\ Len(CreatedNames("create_pv")) = 2
  /\ Len(CreatedNames("create_pvc")) = 1

\* the cluster calls made for the message being handled, in order: kind and resource name
ClusterCalls ==
  LET made == SelectSeq(c_calls, LAMBDA c : c.op \in {"create_pv", "create_pvc", "create_job"})
  IN [i \in 1..Len(made) |-> <<made[i].op, made[i].name>>]

\* the order of the cluster calls of one complete spawn_job
ExpectedCalls ==
  <<<<"create_pv", job_name \o archive_pv_suffix>>,
    <<"create_pvc", job_name \o archive_pvc_suffix>>,
    <<"create_pv", job_name \o extras_pv_suffix>>,
    <<"create_pvc", job_name \o extras_pvc_suffix>>>>
  \o (IF dev_mode THEN <<>>
      ELSE <<<<"create_pv", job_name \o ceph_pv_suffix>>,
             <<"create_pvc", job_name \o ceph_pvc_suffix>>>>)
  \o (IF msg.instrument = "imat"
      THEN <<<<"create_pv", job_name \o imat_pv_suffix>>,
             <<"create_pvc", job_name \o imat_pvc_suffix>>>>
      ELSE <<>>)
  \o <<<<"create_job", job_name>>>>

\* C22: the cluster calls of one spawn_job are made in the order archive PV, archive PVC,
\* extras PV, extras PVC, then the output PV and PVC when dev_mode is off, then the imat
\* PV and PVC for imat, and create_namespaced_job last: what has been called so far is a
\* prefix of that order, and all of it once the job is submitted.
C22_CallOrder ==
  Handling =>
    /\ Len(ClusterCalls) <= Len(ExpectedCalls)
    /\ ClusterCalls = SubSeq(ExpectedCalls, 1, Len(ClusterCalls))
    /\ submitted # NoJob => ClusterCalls = ExpectedCalls

\* C22 witness: a production job for imat has been created: nine cluster calls
C22_Witness ==
  /\ Handling
  /\ ~dev_mode
  /\ msg.instrument = "imat"
  /\ Len(ClusterCalls) = 9
  /\ c_calls[Len(c_calls)] = Call("create_job", job_name, 1, "")

OutputPv == job_name \o ceph_pv_suffix

OutputPvc == job_name \o ceph_pvc_suffix

\* the calls of one kind made for one resource name
CallsFor(op, name) == {i \in 1..Len(c_calls) : c_calls[i].op = op /\ c_calls[i].name = name}

\* the annotation text lists the name
Listed(annotation, name) == FindSep(annotation, PyRepr(name)) # 0

\* C23: with dev_mode on, no output PV or PVC is created for a job or listed in its
\* annotations, and the volume mounted at /output is an emptyDir of 100Gi; with dev_mode
\* off, a submitted job has exactly one output PV and one output PVC created, both are
\* listed in its annotations and /output is backed by that claim.
C23_OutputVolumeByMode ==
  (Handling /\ job_name # <<>>) =>
    IF dev_mode
    THEN /\ \A i \in 1..Len(c_calls) : c_calls[i].name \notin {OutputPv, OutputPvc}
         /\ submitted # NoJob =>
              /\ ~Listed(submitted.pvs, OutputPv)
              /\ ~Listed(submitted.pvcs, OutputPvc)
              /\ submitted.ceph_volume.mount_path = "/output"
              /\ submitted.ceph_volume.source = "empty_dir"
              /\ submitted.ceph_volume.size_limit = "100Gi"
    ELSE /\ Cardinality(CallsFor("create_pv", OutputPv)) <= 1
         /\ Cardinality(CallsFor("create_pvc", OutputPvc)) <= 1
         /\ submitted # NoJob =>
              /\ Cardinality(CallsFor("create_pv", OutputPv)) = 1
              /\ Cardinality(CallsFor("create_pvc", OutputPvc)) = 1
              /\ Listed(submitted.pvs, OutputPv)
              /\ Listed(submitted.pvcs, OutputPvc)
              /\ submitted.ceph_volume.mount_path = "/output"
              /\ submitted.ceph_volume.source = "persistent_volume_claim"
              /\ submitted.ceph_volume.claim_name = OutputPvc

\* C23 witness: a job is submitted with dev_mode on; two PVs and two PVCs were created
C23_Witness ==
  /\ Handling
  /\ dev_mode
  /\ submitted # NoJob
  /\ msg.instrument # "imat"
  /\ Len(CreatedNames("create_pv")) = 2
  /\ Len(CreatedNames("create_pvc")) = 2

\* what the message being handled asks for: the `affinity` field of a simple message, the
\* instrument imat on the other paths
AffinityAsked ==
  IF job_type = "simple" THEN msg.affinity # PyNone ELSE msg.instrument = "imat"

\* C24: a submitted job always has the preferred pod anti-affinity, and it has a required
\* node affinity exactly when the message asks for one: a simple message by its
\* `affinity` field, a rerun or autoreduction message by the instrument imat.
C24_NodeAffinityOnlyOnRequest ==
  submitted # NoJob =>
    /\ submitted.affinity.pod_anti_affinity = "preferred"
    /\ (submitted.affinity.node_affinity = "required") <=> AffinityAsked

\* a field the message's variant requires is missing: a key the handler subscripts, or
\* both owner fields of a simple message
MissingRequiredField(m) ==
  \/ ~m.complete
  \/ /\ PathOf(JobTypeOf(m)) = "simple"
     /\ m.user_number = NoneVal
     /\ m.experiment_number = NoneVal

\* C38: while and after a message is handled that misses a required field (on any of the
\* three paths), or a simple message whose job_id is not an integer, no PV, PVC or job
\* creation call is made; the handler ends by logging the error.
C38_InvalidMessageCreatesNothing ==
  (/\ Handling
   /\ Body = "object"
   /\ PathOf(JobTypeOf(msg)) # "none"
   /\ \/ MissingRequiredField(msg)
      \/ PathOf(JobTypeOf(msg)) = "simple" /\ msg.job_id # "int") =>
    /\ NothingCreated
    /\ c_pc = "handled"
    /\ c_error \in {"KeyError", "ValueError"}

-----------------------------------------------------------------------------
(* Properties of the watcher sidecar.                                      *)

\* the partial name occurs in the name
ContainsName(name, partial) == partial = <<>> \/ FindSep(name, partial) # 0

\* C31: the construction of the watcher ends in ValueError exactly when no pod of the
\* namespace has a name that contains partial_pod_name, and otherwise sets pod_name to
\* the name of such a pod; every later refresh reads the pod of that name; once set,
\* pod_name never changes.
C31_PodFoundOnceAndReadByName ==
  /\ [](s_pc = "watching" =>
          /\ ContainsName(pod_name, settings.PARTIAL_POD_NAME)
          /\ pod_read.name = pod_name)
  /\ [][(s_pc = "imported" /\ s_pc' \in {"watching", "ValueError"}) =>
          /\ (s_pc' = "ValueError") <=>
               ~\E i \in 1..Len(pods) : ContainsName(pods[i], settings.PARTIAL_POD_NAME)
          /\ (s_pc' = "watching") => (\E i \in 1..Len(pods) : pods[i] = pod_name')]_vars
  /\ [][(pod_name # NoneVal) => (pod_name' = pod_name)]_vars

\* a refresh has read the pod by its name while the first pod of the namespace that
\* contains the partial name is another one
C31_Witness ==
  /\ s_pc = "watching"
  /\ pod_read = PodRead(pod_name, "read_namespaced_pod")
  /\ \E i \in 1..Len(pods) :
       /\ pods[i] # pod_name
       /\ ContainsName(pods[i], settings.PARTIAL_POD_NAME)
       /\ \A j \in 1..Len(pods) : pods[j] = pod_name => i < j

\* C40: the constants the watcher reads from its environment are the values the creator
\* handed to spawn_job: the API host and key, the maximum duration, and the job name as
\* container name, job name and pod name.
C40_SidecarSettingsAreTheCreators ==
  s_pc \notin {"off", "creator", "spawned"} =>
    /\ settings.FIA_API_HOST = spawn_args.fia_api_host
    /\ settings.FIA_API_API_KEY = spawn_args.fia_api_api_key
    /\ settings.MAX_TIME_TO_COMPLETE = spawn_args.max_time_to_complete_job
    /\ settings.CONTAINER_NAME = spawn_args.job_name
    /\ settings.JOB_NAME = spawn_args.job_name
    /\ settings.PARTIAL_POD_NAME = spawn_args.job_name

-----------------------------------------------------------------------------
(* Properties of two jobs side by side.                                    *)

\* the names of the calls of job p with one of the operations
CalledNames(p, ops) ==
  {p_calls[p][k].name : k \in {k \in 1..Len(p_calls[p]) : p_calls[p][k].op \in ops}}

\* C37: two jobs with different job_names share no PV name and no PVC name, and whatever
\* the interleaving of the two creators and the two watchers, no delete call of one job's
\* watcher names a volume or a claim that the other job created or recorded.
C37_WatchersOfDifferentJobsAreIndependent ==
  \A a \in PairJobs : \A b \in PairJobs \ {a} :
    /\ Range(p_jobs[a].pv_names) \cap Range(p_jobs[b].pv_names) = {}
    /\ Range(p_jobs[a].pvc_names) \cap Range(p_jobs[b].pvc_names) = {}
    /\ CalledNames(a, {"delete_pv"})
         \cap (Range(p_jobs[b].pv_names) \cup CalledNames(b, {"create_pv"})) = {}
    /\ CalledNames(a, {"delete_pvc"})
         \cap (Range(p_jobs[b].pvc_names) \cup CalledNames(b, {"create_pvc"})) = {}

\* two jobs of the same path whose names differ in one digit: the watcher of the first has
\* finished its cleanup while the watcher of the second is in the middle of its own
C37_Witness ==
  /\ p_pc[1] = "done"
  /\ p_pc[2] = "pvcs"
  /\ Len(p_jobs[1].job_name) = Len(p_jobs[2].job_name)
  /\ Cardinality({k \in 1..Len(p_jobs[1].job_name) :
                    p_jobs[1].job_name[k] # p_jobs[2].job_name[k]}) = 1
  /\ CalledNames(1, {"delete_pv"}) = Range(p_jobs[1].pv_names)
  /\ CalledNames(1, {"delete_pvc"}) = Range(p_jobs[1].pvc_names)
  /\ CalledNames(2, {"delete_pv"}) = Range(p_jobs[2].pv_names)
  /\ CalledNames(2, {"delete_pvc"}) # {}

GpuToleration ==
  V1Toleration(PyNone, PyStrOf("nvidia.com/gpu"), PyStrOf("Exists"), PyStrOf("NoSchedule"))

DedicatedToleration ==
  V1Toleration(PyStrOf("fia"), PyStrOf("dedicated"), PyStrOf("Equal"), PyStrOf("NoExecute"))

\* the tolerations the taints of the message ask for
TolerationsAsked(m) ==
  IF m.taints.toks = TaintsText THEN <<GpuToleration>>
  ELSE IF m.taints.toks = TwoTaintsText THEN <<DedicatedToleration, GpuToleration>>
  ELSE <<>>

\* the message names at least one taint, as a JSON string or as a JSON array
HasTaints(m) == m.taints # PyNone /\ m.taints.toks \in {TaintsText, TwoTaintsText}

\* C39: once a simple message with a non-empty list of taints and an `affinity`, and
\* otherwise valid, has been handled with no cluster call failing, a job is submitted
\* whose tolerations are those of the taints, one per taint and in their order, and whose
\* pods have the required node affinity.
C39_TolerationsAndAffinityOfSimpleMessage ==
  (/\ c_pc = "handled"
   /\ job_type = "simple"
   /\ msg.complete /\ msg.job_id = "int"
   /\ HasTaints(msg) /\ msg.affinity # PyNone
   /\ c_error \notin CreateErrors \cup {"create_job"}) =>
    /\ submitted # NoJob
    /\ submitted.tolerations = TolerationsAsked(msg)
    /\ submitted.affinity.node_affinity = "required"

-----------------------------------------------------------------------------
(* Properties of the image digest lookup.                                  *)

\* C25: find_sha256_of_image never raises; for every reference and every behaviour of the
\* registry the value it returns contains `@sha256:` or is the reference passed in; a
\* reference that already contains `sha256:` is returned unchanged and no request is sent
\* to the registry for it.
C25_DigestOrInput ==
  /\ i_pc # "raised"
  /\ i_pc = "returned" =>
       /\ resolved.raised = ""
       /\ \/ FindSep(resolved.value, <<"@", "sha256", ":">>) # 0
          \/ resolved.value = image
       /\ (image # NotAStr /\ FindSep(image, <<"sha256", ":">>) # 0) =>
            /\ resolved.value = image
            /\ resolved.requests = <<>>
       /\ (registry.token # "ok" \/ registry.manifest = "raises") => resolved.value = image

\* C25 witness: a reference with a tag was resolved with two requests to the registry: the
\* value returned is another reference, pinned to the digest of the manifest
C25_Witness ==
  /\ i_pc = "returned"
  /\ image = <<"https", ":", "/", "/", "ghcr.io", "/", "fiaisis", "/", "mantid", ":", "6.9.1">>
  /\ Len(resolved.requests) = 2
  /\ resolved.value = <<"ghcr.io", "/", "fiaisis", "/", "mantid", "@", "sha256", ":">>
                      \o sha256_hexdigest(registry.manifest)

-----------------------------------------------------------------------------
(* Properties of the reports made from the main container's log.           *)

\* the lines of the log
LogLines == PySplit(log, <<NL>>)

NonEmptyIdx == {i \in 1..Len(LogLines) : LogLines[i] # <<>>}

\* the last line of the log that is not empty
LastNonEmptyLine == LogLines[CHOOSE i \in NonEmptyIdx : \A k \in NonEmptyIdx : k <= i]

\* C32: the state of every status report sent to the API is one of SUCCESSFUL,
\* UNSUCCESSFUL, ERROR and NOT_STARTED, whatever `status` the payload of the script has.
C32_ReportedStateIsKnown ==
  (l_pc = "reported" /\ l_out.reports > 0) => l_out.state \in StateString

\* C33: on the success path the line handed to json.loads is the last non-empty line of
\* the log, for every log that has one: one line or several, with or without a newline
\* at its end, with or without lines that are no JSON.
C33_ParsesLastNonEmptyLine ==
  (l_out.path = "success" /\ log_read = "ok" /\ NonEmptyIdx # {}) =>
    l_out.output = LastNonEmptyLine

\* the str() of the exceptions the except clauses of process_job_success catch
ExceptionTexts == {PyStrOf(e) : e \in {"JSONDecodeError", "TypeError", "ApiException"}}

\* C34: process_job_success sends exactly one status report for every log; when the log
\* read fails or the line it chose is no JSON object, the report has the state
\* UNSUCCESSFUL, the text of the exception as status_message and no output files.
C34_OneReportForEveryLog ==
  l_out.path = "success" =>
    /\ l_pc = "reported"
    /\ l_out.reports = 1
    /\ (log_read = "raises" \/ json_loads(l_out.output).type # "dict") =>
         /\ l_out.state = "UNSUCCESSFUL"
         /\ l_out.status_message \in ExceptionTexts
         /\ l_out.output_files = EmptyList

\* C35: for every log of a container that terminated with another exit code than 0,
\* the empty log included, process_job_failed sends exactly one report: state ERROR, no
\* output files, the error line as status_message and the stack trace found in the log.
C35_FailureReport ==
  (l_out.path = "failure" /\ log_read = "ok") =>
    /\ l_pc = "reported"
    /\ l_out.reports = 1
    /\ l_out.state = "ERROR"
    /\ l_out.output_files = EmptyList
    /\ l_out.status_message.type = "str"
    /\ l_out.stacktrace.type = "str"
    /\ l_out.status_message.toks =
         _find_latest_raised_error_and_stacktrace_from_reversed_logs(Reverse(LogLines)).raised_error
    /\ l_out.stacktrace.toks =
         _find_latest_raised_error_and_stacktrace_from_reversed_logs(Reverse(LogLines)).stacktrace

\* C35 witness: the container failed without writing anything; ERROR is reported with an
\* empty status_message and an empty stack trace
C35_Witness ==
  /\ l_pc = "reported"
  /\ l_out.path = "failure"
  /\ log = <<>>
  /\ l_out.state = "ERROR"
  /\ l_out.status_message = EmptyStr

ErrorIdx == {i \in 1..Len(LogLines) : Contains(LogLines[i], "Error:")}

\* the latest line of the log that contains Error:
LatestError == CHOOSE i \in ErrorIdx : \A k \in ErrorIdx : k <= i

\* the lines before the latest error line that contain the traceback header
TracebackIdx ==
  {i \in 1..(LatestError - 1) : Contains(LogLines[i], "Traceback (most recent call last):")}

NearestTraceback == CHOOSE i \in TracebackIdx : \A k \in TracebackIdx : k <= i

====
